---- MODULE Spec2Model ----
(***************************************************************************)
(* Model of the multi-send orchestrator of src/src/App.tsx: the send       *)
(* handlers handleSend / handleMultiTokenSend, the transaction builder     *)
(* buildMultiSendTransaction, and the network they talk to.                *)
(*                                                                         *)
(* A handler is an async function: it runs atomically between two awaits.  *)
(* Each action below is one such stretch of a handler, ending at the       *)
(* network round trip whose answer the environment chooses.                *)
(***************************************************************************)
EXTENDS Integers, Sequences, FiniteSets, TLC

VARIABLES
    \* ---- React state of Dashboard (App.tsx 326-346)
    tokenType,          \* 'SOL' | 'SPL' | 'MULTI'
    splMint,            \* mint typed/selected for a single-token send
    tokenAccounts,      \* wallet tokens (MULTI)
    customTokens,       \* tokens added by address (MULTI)
    parsedRecipients,   \* Recipient[]
    rawText,            \* the recipients text: its characters, a run without separator being one
    mode,               \* 'SAME' | 'DIFF'
    sameAmount,
    \* ---- one call of a confirmation wait: confirmTransactionWithTimeout of App.tsx
    \*      or confirmTransaction of iwithdraw/Max.tsx
    watcher,            \* "App" | "Max": which of the two functions runs
    wCommitment,        \* the commitment argument
    wPc,                \* "off" | "check" (the while condition) | "polling" | "sleeping" | "returned"
    now,                \* Date.now(), in ms
    wStart,             \* startTime
    wLast,              \* what the last poll answered
    wResult,            \* the value returned
    wOutcome,           \* what ended the wait: "CONFIRMED" | "FAILED" | "TIMED_OUT"
    returnsSeen,        \* <<watcher, value returned, what ended the wait>> of the calls so far
    \* ---- one call of requestAlchemyFeePayer
    sPc,                \* "off" | "fetch" | "json" | "inspect" | "returned" | "threw"
    sRequest,           \* the serializedTransaction argument
    sReply,             \* what the service will do to this call
    sResult,            \* the value returned
    \* ---- one evaluation of BigInt(Math.round(parseFloat(amount) * Math.pow(10, decimals)))
    aPc,                \* "off" | "parse" | "scale" | "round" | "done"
    aAmount,            \* recipient.amount: the digits before and after the point
    aDecimals,          \* decimals
    aFloat,             \* the double the expression has reached
    aUnits,             \* amountBig
    status,             \* 'IDLE' | 'VALIDATING' | 'SENDING' | 'SUCCESS' | 'ERROR'
    statusMsg,
    txSigs,
    \* ---- the network
    ataExists,          \* the receiving accounts getAccountInfo finds
    \* ---- the running handler: its position and its locals
    pc,
    handler,            \* "single" (handleSend) | "multi" (handleMultiTokenSend)
    validRecipients,
    selectedTokens,
    tokenIdx,
    buildRecipients,    \* the recipients argument of buildMultiSendTransaction
    mint,               \* the tokenMint argument of buildMultiSendTransaction
    chunks,
    resolveIdx,
    ataStats,
    atasToCreate,
    ataTxs,
    transferTxs,
    signatures,         \* signatures (handleSend) / allSignatures (handleMultiTokenSend)
    totalAtas,          \* totalAtasCreated, totalAtasExisted (handleMultiTokenSend)
    i,                  \* loop index of the submit / confirm loop in progress
    \* ---- history of the run, for stating the properties
    jobs,               \* one TransactionJob per submitted transaction, in submission order
    classified,         \* the branch the resolver took for each recipient, in order
    rejected,           \* <<>>, or the one rejected submission: what it was and how many jobs preceded it
    prevStatus,         \* status before the last change of status
    externalCreates,    \* accounts created by other actors so far
    badOutcomes,        \* confirmation waits of this run that did not return Confirmed
    \* ---- the wallet sweeper (iwithdraw/Max.tsx 31-268): one run of startSweep
    swKeys,             \* PRIVATE_KEYS: for each key, what it is and what the network does to its sweep
    swPc,               \* "off" | "idle" | "group" (top of the for loop) | "sweeping" (Promise.all) | "done"
    swI,                \* i of the for loop
    sweeps,             \* the calls of sweepSolFromWallet of the group in progress, in batch order
    allResults,
    sweeping,           \* React state of SolSweeper
    results,
    progress,
    activeWallets,
    \* ---- the account closer (iwithdraw/Max.tsx 545-756): one call of processWallet
    cPc,                \* "off" | "parse" | "accounts" | "batch" | "returned"
    cKeyValid,          \* whether parsePrivateKey accepts the key
    cOwned,             \* the token accounts getAllTokenAccounts will find
    allAccounts,
    cI,                 \* i of the batch loop
    totalClosed,
    closeSignatures,    \* signatures
    cBatches,           \* the calls of closeAccountsBatch so far: the transaction and how it ended
    cResult,            \* the ProcessResult returned
    logs,
    \* ---- the utility builder (utils/solanaUtils.ts 71-155): one call
    uPc,                \* "off" | "called" | "blockhash" | "accountInfo" | "returned" | "threw"
    uRecipients,        \* the recipients argument
    tokenMint,
    autoCreateATA,
    uMissing,           \* the recipients whose receiving account getAccountInfo does not find
    uC,                 \* the chunk being built
    uR,                 \* the recipient of the chunk being added
    transaction,
    transactions

vars == <<tokenType, splMint, tokenAccounts, customTokens, parsedRecipients,
          rawText, mode, sameAmount,
          watcher, wCommitment, wPc, now, wStart, wLast, wResult, wOutcome, returnsSeen,
          sPc, sRequest, sReply, sResult,
          aPc, aAmount, aDecimals, aFloat, aUnits,
          status, statusMsg, txSigs, ataExists, pc, handler, validRecipients,
          selectedTokens, tokenIdx, buildRecipients, mint, chunks, resolveIdx,
          ataStats, atasToCreate, ataTxs, transferTxs, signatures, totalAtas, i,
          jobs, classified, rejected, prevStatus, externalCreates, badOutcomes,
          swKeys, swPc, swI, sweeps, allResults, sweeping, results, progress,
          activeWallets,
          cPc, cKeyValid, cOwned, allAccounts, cI, totalClosed, closeSignatures,
          cBatches, cResult, logs,
          uPc, uRecipients, tokenMint, autoCreateATA, uMissing, uC, uR, transaction,
          transactions>>

parseVars == <<rawText, mode, sameAmount>>

watchVars == <<watcher, wCommitment, wPc, now, wStart, wLast, wResult, wOutcome,
               returnsSeen>>

sponsorVars == <<sPc, sRequest, sReply, sResult>>

amountVars == <<aPc, aAmount, aDecimals, aFloat, aUnits>>

sweepVars == <<swKeys, swPc, swI, sweeps, allResults, sweeping, results, progress,
               activeWallets>>

closeVars == <<cPc, cKeyValid, cOwned, allAccounts, cI, totalClosed, closeSignatures,
               cBatches, cResult, logs>>

\* the tools next to the dashboard
utilVars == <<uPc, uRecipients, tokenMint, autoCreateATA, uMissing, uC, uR, transaction,
              transactions>>

toolVars == <<sweepVars, closeVars, utilVars>>

uiVars == <<tokenType, splMint, tokenAccounts, customTokens, parsedRecipients, parseVars,
            watchVars, sponsorVars, amountVars, toolVars>>

-----------------------------------------------------------------------------
(* Bounds of the model *)

MaxRecipients == 9
MaxExternalCreates == 1
MaxMultiRecipients == 6
MaxBadOutcomes == 1
MaxTokens == 201
MaxLatencyTicks == 1

(* Program constants *)

MAX_BATCH_SIZE == 100
MAX_TX_SIZE_SOL == 8
MAX_TX_SIZE_SPL == 5
ataChunkSize == 2
timeoutMs == 90000
pollIntervalMs == 2000
CONFIRMATION_TIMEOUT == 60000
sweeperPollIntervalMs == 1000
TickMs == 1000
SOL_MINT == "SOL"
AlchemyEnabled == TRUE

-----------------------------------------------------------------------------
(* The inputs *)

Wallets == {"A", "B", "C"}
Mints == {"M1", "M2"}
Sender == "S"

\* new PublicKey(address) succeeds exactly on well-formed base58 keys
isValidAddress(address) == address \in Wallets \cup Mints

\* parseFloat(amount) > 0 on the amount strings of the model:
\* parseFloat("") is NaN and NaN > 0 is false
ParsesPositive(amount) == amount \in {"1", "0.5"}

Recipient(a, amt) == [address |-> a, amount |-> amt]

PoolDistinct == <<Recipient("A", "1"), Recipient("B", "0.5"), Recipient("C", "1")>>
PoolMixed == <<Recipient("A", "1"), Recipient("bad", "1"), Recipient("B", "0"),
               Recipient("A", "0.5")>>
PoolZeroAmount == <<Recipient("B", "0"), Recipient("C", "0")>>
Pools == {PoolDistinct, PoolMixed, PoolZeroAmount}

CycleList(pool, n) == [k \in 1..n |-> pool[((k - 1) % Len(pool)) + 1]]

RecipientLists == {CycleList(p, n) : p \in Pools, n \in 0..MaxRecipients}

\* the characters /[\n\s,]+/ matches
Separators == {" ", ",", "\n", "\t"}

\* the text a list was typed as in DIFF mode: one line "address amount" each
TextOf(rs) ==
    [k \in 1..(4 * Len(rs)) |->
        CASE k % 4 = 1 -> rs[(k + 3) \div 4].address
          [] k % 4 = 2 -> " "
          [] k % 4 = 3 -> rs[(k + 3) \div 4].amount
          [] OTHER -> "\n"]

Token(m, sym, sel, amt) ==
    [mint |-> m, symbol |-> sym, selected |-> sel, amountToSend |-> amt]

\* getAssociatedTokenAddress(mint, owner, false, programId): a function of (mint, owner)
Ata(m, owner) == <<owner, m>>

AllAtas == {Ata(m, w) : m \in Mints, w \in Wallets}

\* what is on the ledger when a send starts: one asset sent / several assets sent
AtaWorlds == { {}, {Ata(m, "B") : m \in Mints}, {Ata("M1", w) : w \in Wallets} }

MultiAtaWorlds == { {}, {Ata("M1", w) : w \in Wallets} }

-----------------------------------------------------------------------------
(* Status messages: the template and the values interpolated into it *)

Msg(text, a, b, asset, reason) ==
    [text |-> text, a |-> a, b |-> b, asset |-> asset, reason |-> reason]

NoMsg == Msg("", 0, 0, "", "")

-----------------------------------------------------------------------------
(* buildMultiSendTransaction: the pure parts *)

\* Mutant of Chunk: the loop stops at the last full chunk (i + size <= xs.length)
RECURSIVE ChunkLosesRemainder(_, _)
ChunkLosesRemainder(xs, size) ==
    IF Len(xs) < size THEN <<>>
    ELSE <<SubSeq(xs, 1, size)>> \o ChunkLosesRemainder(SubSeq(xs, size + 1, Len(xs)), size)

\* for (i = 0; i < xs.length; i += size) out.push(xs.slice(i, i + size))
RECURSIVE Chunk(_, _)
Chunk(xs, size) ==
    IF Len(xs) = 0 THEN <<>>
    ELSE IF Len(xs) <= size THEN <<xs>>
    ELSE <<SubSeq(xs, 1, size)>> \o Chunk(SubSeq(xs, size + 1, Len(xs)), size)

chunkSizeFor(m) == IF m = SOL_MINT THEN MAX_TX_SIZE_SOL ELSE MAX_TX_SIZE_SPL

\* Mutant of CreateInstr: the owner of the new account pays for it
CreateInstrPaidByOwner(work) ==
    [kind |-> "createAta", payer |-> work.recipient, ata |-> work.ata,
     owner |-> work.recipient, mint |-> work.mint]

CreateInstr(work) ==
    [kind |-> "createAta", payer |-> Sender, ata |-> work.ata,
     owner |-> work.recipient, mint |-> work.mint]

\* Mutant of BuildAtaTxs: one creation transaction per account
BuildAtaTxsOneEach(work) ==
    [k \in 1..Len(work) |-> <<CreateInstr(work[k])>>]

BuildAtaTxs(work) ==
    LET cs == Chunk(work, ataChunkSize)
    IN  [k \in 1..Len(cs) |-> [j \in 1..Len(cs[k]) |-> CreateInstr(cs[k][j])]]

TransferInstr(m, r) ==
    IF m = SOL_MINT
    THEN [kind |-> "transfer", from |-> Sender, to |-> r.address,
          amount |-> r.amount, mint |-> SOL_MINT]
    ELSE [kind |-> "transferChecked", from |-> Ata(m, Sender), to |-> Ata(m, r.address),
          amount |-> r.amount, mint |-> m]

BuildTransferTxs(m, cs) ==
    [k \in 1..Len(cs) |-> [j \in 1..Len(cs[k]) |-> TransferInstr(m, cs[k][j])]]

-----------------------------------------------------------------------------
(* The handlers' small decisions, one definition each *)

Outcomes == {"CONFIRMED", "FAILED", "TIMED_OUT"}

\* who has signed a transaction when it is handed to the network: a sponsored
\* creation batch is the sponsor's answer, sent on as it came back (699-707,
\* 855-860); every other transaction goes through the wallet's sendTransaction
\* (714, 755, 865, 893), which signs for the sender
Sponsor == "sponsor"

SignedBy(kind) == IF kind = "ata" /\ AlchemyEnabled THEN {Sponsor} ELSE {Sender}

Job(kind, asset, batch, tx) ==
    [kind |-> kind, asset |-> asset, batch |-> batch, tx |-> tx,
     signedBy |-> SignedBy(kind), confirmation |-> "PENDING", waits |-> 0]

Rejection(kind, asset, batch, at) ==
    [kind |-> kind, asset |-> asset, batch |-> batch, at |-> at]

\* signatures.push(sig)
PushSig(sigs, sig) == Append(sigs, sig)

\* Mutant of ValidSingle: the filter of handleMultiTokenSend, which looks at the
\* address only
ValidSingleAnyAmount(rs) == SelectSeq(rs, LAMBDA r : isValidAddress(r.address))

\* validRecipients of handleSend
ValidSingle(rs) ==
    SelectSeq(rs, LAMBDA r : isValidAddress(r.address) /\ ParsesPositive(r.amount))

\* validRecipients of handleMultiTokenSend
\* Mutant of ValidMulti: nothing is filtered
ValidMultiKeepsAll(rs) == rs

ValidMulti(rs) == SelectSeq(rs, LAMBDA r : isValidAddress(r.address))

\* selectedTokens of handleMultiTokenSend
SelectedTokens(ts) ==
    SelectSeq(ts, LAMBDA t : t.selected /\ t.amountToSend # "" /\ ParsesPositive(t.amountToSend))

\* selectedTokensCount of Dashboard
selectedTokensCount ==
    IF tokenType = "MULTI"
    THEN Len(SelectSeq(tokenAccounts \o customTokens, LAMBDA t : t.selected))
    ELSE 0

\* recipientsWithAmount of handleMultiTokenSend
RecipientsWithAmount(rs, token) ==
    [k \in 1..Len(rs) |-> Recipient(rs[k].address,
                                    IF token.amountToSend # "" THEN token.amountToSend ELSE "0")]

\* Mutant of SendDisabled: the button is disabled only while validating
SendDisabledWhileValidating ==
    \/ Len(parsedRecipients) = 0
    \/ status = "VALIDATING"
    \/ (tokenType = "MULTI" /\ selectedTokensCount = 0)

\* the disabled attribute of the send button
SendDisabled ==
    \/ Len(parsedRecipients) = 0
    \/ status = "SENDING"
    \/ status = "VALIDATING"
    \/ (tokenType = "MULTI" /\ selectedTokensCount = 0)

\* Mutant of StatusOnThrow: the catch block resets the session
StatusOnThrowIdle == "IDLE"

\* the status the catch block of a handler sets
StatusOnThrow == "ERROR"

\* Mutant of PcOnThrow: the error is swallowed and the loop goes on
PcOnThrowGoesOn == pc

\* where the handler goes when a submission throws: into its catch block
PcOnThrow == "idle"

\* Mutant of PcAfterAtaSends: the creation confirm loop is skipped
PcAfterAtaSendsSkipsWait == "sendTransfer"

\* where the handler goes after the last creation batch was submitted
PcAfterAtaSends == "confirmAta"

\* the first signature (1-based index into signatures) the creation confirm loop awaits
AtaConfirmStart(h, sigs, nAta) ==
    IF h = "single" THEN 1 ELSE Len(sigs) - nAta + 1

\* Mutant of TransferConfirmStart: the transfer confirm loop awaits the whole list
TransferConfirmStartWhole(h, sigs, nTransfer) == 1

\* the first signature the transfer confirm loop awaits:
\* signatures.slice(-n) is the whole array when n = 0
TransferConfirmStart(h, sigs, nTransfer) ==
    IF h = "single"
    THEN (IF nTransfer = 0 \/ nTransfer >= Len(sigs) THEN 1 ELSE Len(sigs) - nTransfer + 1)
    ELSE Len(sigs) - nTransfer + 1

\* setTxSigs(signatures) on success
ReportedSigs(sigs) == sigs

\* Mutant of StatsOnExisting: the found account is not counted
StatsOnExistingUncounted(st) == st

\* the resolver's branches on ataExists
StatsOnExisting(st) == [st EXCEPT !.existing = @ + 1]
StatsOnMissing(st) == [st EXCEPT !.toCreate = @ + 1]
WorkOnExisting(work, r, m) == work
WorkOnMissing(work, r, m) ==
    Append(work, [recipient |-> r.address, ata |-> Ata(m, r.address), mint |-> m])

SymbolOf(m) == IF m = "M1" THEN "T1" ELSE IF m = "M2" THEN "T2" ELSE m

-----------------------------------------------------------------------------
(* Init: the dashboard after the user chose what to send and to whom *)

\* a status answer of the network, and the value a wait returns
Response(kind, err, level) == [kind |-> kind, err |-> err, level |-> level]
NoResponse == Response("none", FALSE, "")
Result(success, error) == [success |-> success, error |-> error]
NoResult == Result(FALSE, "not returned")

\* no confirmation wait is being looked at
WatchIdle ==
    /\ watcher = "App"
    /\ wCommitment = "confirmed"
    /\ wPc = "off"
    /\ now = 0
    /\ wStart = 0
    /\ wLast = NoResponse
    /\ wResult = NoResult
    /\ wOutcome = "PENDING"
    /\ returnsSeen = {}

\* what the sponsor does to one request: fetch rejects, or response.json() rejects,
\* with an Error of some message, or the body parses to data; Absent stands for a
\* property that is not there (undefined)
Absent == "(absent)"
Reply(fetchThrows, jsonThrows, message, nullBody, data) ==
    [fetchThrows |-> fetchThrows, jsonThrows |-> jsonThrows, message |-> message,
     nullBody |-> nullBody, data |-> data]
Data(error, errorMessage, result, serializedTransaction) ==
    [error |-> error, errorMessage |-> errorMessage, result |-> result,
     serializedTransaction |-> serializedTransaction]
NoData == Data(FALSE, Absent, FALSE, Absent)
NoReply == Reply(FALSE, FALSE, "", FALSE, NoData)

\* { success, signedTransaction?, error? }
SponsorResult(success, signedTransaction, error) ==
    [success |-> success, signedTransaction |-> signedTransaction, error |-> error]
NoSponsorResult == SponsorResult(FALSE, Absent, "not returned")

\* no sponsorship request is being looked at
SponsorIdle ==
    /\ sPc = "off"
    /\ sRequest = ""
    /\ sReply = NoReply
    /\ sResult = NoSponsorResult

\* a decimal string: the digits before the point and the digits after it
Amount(int, frac) == [int |-> int, frac |-> frac]

\* a double of value m * 2^e, m a natural number of at most 53 bits (bits, least
\* significant first)
Double(m, e) == [m |-> m, e |-> e]

\* no conversion is being looked at
AmountIdle ==
    /\ aPc = "off"
    /\ aAmount = Amount(<<0>>, <<>>)
    /\ aDecimals = 0
    /\ aFloat = Double(<<>>, 0)
    /\ aUnits = <<>>

\* the sweeper is not running
SweepIdle ==
    /\ swKeys = <<>>
    /\ swPc = "off"
    /\ swI = 0
    /\ sweeps = <<>>
    /\ allResults = <<>>
    /\ sweeping = FALSE
    /\ results = <<>>
    /\ progress = [current |-> 0, total |-> 0]
    /\ activeWallets = <<>>

ProcessResult(wallet, st, accountsClosed, message, sigs) ==
    [wallet |-> wallet, status |-> st, accountsClosed |-> accountsClosed,
     message |-> message, signatures |-> sigs]

NoProcessResult == ProcessResult(<<>>, "none", 0, <<>>, <<>>)

\* the closer is not running
CloseIdle ==
    /\ cPc = "off"
    /\ cKeyValid = FALSE
    /\ cOwned = <<>>
    /\ allAccounts = <<>>
    /\ cI = 0
    /\ totalClosed = 0
    /\ closeSignatures = <<>>
    /\ cBatches = <<>>
    /\ cResult = NoProcessResult
    /\ logs = <<>>

NoTransaction == [feePayer |-> "", recentBlockhash |-> 0, instructions |-> <<>>]

\* the utility builder is not running
UtilIdle ==
    /\ uPc = "off"
    /\ uRecipients = <<>>
    /\ tokenMint = SOL_MINT
    /\ autoCreateATA = TRUE
    /\ uMissing = {}
    /\ uC = 0
    /\ uR = 0
    /\ transaction = NoTransaction
    /\ transactions = <<>>

ToolsIdle == SweepIdle /\ CloseIdle /\ UtilIdle

TokenConfigs ==
    {<<ta, ct>> : ta \in {<<Token("M1", "T1", TRUE, a)>> : a \in {"1", ""}},
                  ct \in {<<Token("M2", "T2", s, "0.5")>> : s \in BOOLEAN}}

Init ==
    /\ tokenType \in {"SOL", "SPL", "MULTI"}
    /\ parsedRecipients \in RecipientLists
    /\ rawText = TextOf(parsedRecipients)
    /\ mode = "DIFF"
    /\ sameAmount = ""
    /\ tokenType = "MULTI" => Len(parsedRecipients) <= MaxMultiRecipients
    /\ \/ /\ tokenType = "SOL"
          /\ splMint = ""
          /\ tokenAccounts = <<>> /\ customTokens = <<>>
          /\ ataExists = {}
       \/ /\ tokenType = "SPL"
          /\ splMint \in {"M1", "notamint"}
          /\ tokenAccounts = <<>> /\ customTokens = <<>>
          /\ ataExists \in AtaWorlds
       \/ /\ tokenType = "MULTI"
          /\ splMint = ""
          /\ \E tc \in TokenConfigs : tokenAccounts = tc[1] /\ customTokens = tc[2]
          /\ ataExists \in MultiAtaWorlds
    /\ status = "IDLE"
    /\ statusMsg = NoMsg
    /\ txSigs = <<>>
    /\ pc = "idle"
    /\ handler = "none"
    /\ validRecipients = <<>>
    /\ selectedTokens = <<>>
    /\ tokenIdx = 0
    /\ buildRecipients = <<>>
    /\ mint = ""
    /\ chunks = <<>>
    /\ resolveIdx = 0
    /\ ataStats = [existing |-> 0, toCreate |-> 0]
    /\ atasToCreate = <<>>
    /\ ataTxs = <<>>
    /\ transferTxs = <<>>
    /\ signatures = <<>>
    /\ totalAtas = [created |-> 0, existed |-> 0]
    /\ i = 0
    /\ jobs = <<>>
    /\ classified = <<>>
    /\ rejected = <<>>
    /\ prevStatus = "IDLE"
    /\ externalCreates = 0
    /\ badOutcomes = 0
    /\ WatchIdle
    /\ SponsorIdle
    /\ AmountIdle
    /\ ToolsIdle

-----------------------------------------------------------------------------
(* Shared pieces of the actions *)

buildVars == <<buildRecipients, mint, chunks, resolveIdx, ataStats, atasToCreate,
               ataTxs, transferTxs, classified>>

SetStatus(s) == status' = s /\ prevStatus' = status

\* A throw that reaches the catch block of the handler (785-788, 913-916)
Throw(msg) ==
    /\ SetStatus(StatusOnThrow)
    /\ statusMsg' = msg
    /\ pc' = PcOnThrow
    /\ UNCHANGED txSigs

\* buildMultiSendTransaction up to its first network round trip (215-230)
BeginBuild(recips, m) ==
    /\ buildRecipients' = recips
    /\ mint' = m
    /\ chunks' = Chunk(recips, chunkSizeFor(m))
    /\ ataStats' = [existing |-> 0, toCreate |-> 0]
    /\ atasToCreate' = <<>>
    /\ classified' = <<>>
    /\ ataTxs' = <<>>
    /\ transferTxs' = <<>>
    /\ resolveIdx' = 1
    /\ pc' = IF m = SOL_MINT THEN "build" ELSE "resolve"

SuccessMsg ==
    IF handler = "single"
    THEN Msg("Successfully sent to wallets", Len(validRecipients), 0, "",
             IF ataStats.toCreate > 0 THEN "ATAs created"
             ELSE IF ataStats.existing > 0 THEN "ATAs existed" ELSE "")
    ELSE Msg("Sent tokens to wallets", Len(selectedTokens), Len(validRecipients), "", "")

-----------------------------------------------------------------------------
(* The actions *)

\* handleSend 637-647 / handleMultiTokenSend 791-796: the click on the send button
StartSend ==
    /\ ~SendDisabled
    /\ SetStatus("VALIDATING")
    /\ statusMsg' = Msg("Validating", 0, 0, "", "")
    /\ txSigs' = <<>>
    /\ pc' = "validate"
    /\ handler' = IF tokenType = "MULTI" THEN "multi" ELSE "single"
    /\ validRecipients' = <<>>
    /\ selectedTokens' = <<>>
    /\ tokenIdx' = 0
    /\ buildRecipients' = <<>>
    /\ mint' = ""
    /\ chunks' = <<>>
    /\ resolveIdx' = 0
    /\ ataStats' = [existing |-> 0, toCreate |-> 0]
    /\ atasToCreate' = <<>>
    /\ ataTxs' = <<>>
    /\ transferTxs' = <<>>
    /\ signatures' = <<>>
    /\ totalAtas' = [created |-> 0, existed |-> 0]
    /\ i' = 0
    /\ jobs' = <<>>
    /\ classified' = <<>>
    /\ rejected' = <<>>
    /\ badOutcomes' = 0
    /\ UNCHANGED <<uiVars, ataExists, externalCreates>>

\* handleSend 649-668
ValidateSingle ==
    /\ pc = "validate" /\ handler = "single"
    /\ LET valid == ValidSingle(parsedRecipients)
           mintToUse == IF tokenType = "SOL" THEN SOL_MINT ELSE splMint
       IN  /\ validRecipients' = valid
           /\ IF Len(valid) = 0
              THEN /\ Throw(Msg("No valid recipients found.", 0, 0, "", ""))
                   /\ UNCHANGED buildVars
              ELSE IF tokenType = "SPL" /\ ~isValidAddress(splMint)
              THEN /\ Throw(Msg("Invalid SPL Mint Address.", 0, 0, "", ""))
                   /\ UNCHANGED buildVars
              ELSE /\ SetStatus("SENDING")
                   /\ statusMsg' = Msg("Building transactions", Len(valid), 0, "", "")
                   /\ BeginBuild(valid, mintToUse)
                   /\ UNCHANGED txSigs
    /\ UNCHANGED <<uiVars, ataExists, handler, selectedTokens, tokenIdx, signatures,
                   totalAtas, i, jobs, rejected, externalCreates, badOutcomes>>

\* handleMultiTokenSend 798-826
ValidateMulti ==
    /\ pc = "validate" /\ handler = "multi"
    /\ LET valid == ValidMulti(parsedRecipients)
           selected == SelectedTokens(tokenAccounts \o customTokens)
       IN  /\ validRecipients' = valid
           /\ IF Len(valid) = 0
              THEN /\ Throw(Msg("No valid recipients found.", 0, 0, "", ""))
                   /\ UNCHANGED <<buildVars, selectedTokens, tokenIdx>>
              ELSE IF Len(selected) = 0
              THEN /\ Throw(Msg("No tokens selected with valid amounts.", 0, 0, "", ""))
                   /\ UNCHANGED <<buildVars, tokenIdx>>
                   /\ selectedTokens' = selected
              ELSE /\ SetStatus("SENDING")
                   /\ selectedTokens' = selected
                   /\ tokenIdx' = 1
                   /\ statusMsg' = Msg("Token to wallets", 1, Len(selected),
                                       selected[1].symbol, "")
                   /\ BeginBuild(RecipientsWithAmount(valid, selected[1]), selected[1].mint)
                   /\ UNCHANGED txSigs
    /\ UNCHANGED <<uiVars, ataExists, handler, signatures, totalAtas, i, jobs,
                   rejected, externalCreates, badOutcomes>>

\* buildMultiSendTransaction 232-249: one recipient of the existence loop
ResolveStep ==
    /\ pc = "resolve"
    /\ LET r == buildRecipients[resolveIdx]
           ataFound == Ata(mint, r.address) \in ataExists
       IN  /\ ataStats' = IF ataFound THEN StatsOnExisting(ataStats)
                          ELSE StatsOnMissing(ataStats)
           /\ atasToCreate' = IF ataFound THEN WorkOnExisting(atasToCreate, r, mint)
                              ELSE WorkOnMissing(atasToCreate, r, mint)
           /\ classified' = Append(classified, IF ataFound THEN "existing" ELSE "toCreate")
    /\ resolveIdx' = resolveIdx + 1
    /\ pc' = IF resolveIdx = Len(buildRecipients) THEN "build" ELSE "resolve"
    /\ UNCHANGED <<uiVars, status, prevStatus, statusMsg, txSigs, ataExists, handler,
                   validRecipients, selectedTokens, tokenIdx, buildRecipients, mint,
                   chunks, ataTxs, transferTxs, signatures, totalAtas, i, jobs,
                   rejected, externalCreates, badOutcomes>>

\* buildMultiSendTransaction 236: connection.getAccountInfo throws
ResolveFail ==
    /\ pc = "resolve"
    /\ Throw(Msg("err.message", 0, 0, "", "failed to get info about account"))
    /\ UNCHANGED <<uiVars, ataExists, handler, validRecipients, selectedTokens, tokenIdx,
                   buildVars, signatures, totalAtas, i, jobs, rejected,
                   externalCreates, badOutcomes>>

\* buildMultiSendTransaction 251-312, then handleSend 670-675 / handleMultiTokenSend 828-833
Build ==
    /\ pc = "build"
    /\ ataTxs' = BuildAtaTxs(atasToCreate)
    /\ transferTxs' = BuildTransferTxs(mint, chunks)
    /\ totalAtas' = IF handler = "multi"
                    THEN [created |-> totalAtas.created + ataStats.toCreate,
                          existed |-> totalAtas.existed + ataStats.existing]
                    ELSE totalAtas
    /\ i' = 1
    /\ IF Len(ataTxs') > 0
       THEN /\ pc' = "sendAta"
            /\ statusMsg' = Msg("Creating ATAs", ataStats.toCreate, Len(ataTxs'),
                                IF handler = "multi" THEN SymbolOf(mint) ELSE "", "")
       ELSE /\ pc' = "sendTransfer"
            /\ statusMsg' = Msg("Sending transfers", Len(buildRecipients),
                                Len(transferTxs'),
                                IF handler = "multi" THEN SymbolOf(mint) ELSE "", "")
    /\ UNCHANGED <<uiVars, status, prevStatus, txSigs, ataExists, handler,
                   validRecipients, selectedTokens, tokenIdx, buildRecipients, mint,
                   chunks, resolveIdx, ataStats, atasToCreate, classified, signatures,
                   jobs, rejected, externalCreates, badOutcomes>>

\* The reason a failed network call reports
RpcErrors == {"Transaction simulation failed"}
SponsorErrors == {"Alchemy error: policy rejected"}

\* The message of the error a creation batch throws: handleSend wraps it (726-728),
\* handleMultiTokenSend names the token on a sponsorship failure only (851-853)
AtaErrorMsg(h, batch, m, sponsor, reason) ==
    IF h = "single"
    THEN Msg("ATA batch failed", batch, 0, "",
             IF sponsor THEN "Alchemy failed: " \o reason ELSE reason)
    ELSE IF sponsor THEN Msg("Alchemy failed for", 0, 0, SymbolOf(m), reason)
    ELSE Msg("err.message", 0, 0, "", reason)

\* What the network answers to a creation batch sent with skipPreflight: false
\* (703-707, 856-860): createAssociatedTokenAccountInstruction (259) is the
\* instruction that creates, not the one that creates unless present, so the
\* simulation fails when an account of the batch is on the ledger already
AccountInUse == "Transaction simulation failed: account already in use"

PreflightFails(tx) == \E k \in 1..Len(tx) : tx[k].ata \in ataExists

\* handleSend 677-725 / handleMultiTokenSend 835-874: one creation batch is sponsored
\* and accepted by the network
SendAtaOk ==
    /\ pc = "sendAta"
    /\ ~PreflightFails(ataTxs[i])
    /\ jobs' = Append(jobs, Job("ata", mint, i, ataTxs[i]))
    /\ signatures' = PushSig(signatures, Len(jobs) + 1)
    /\ IF i < Len(ataTxs)
       THEN /\ i' = i + 1
            /\ pc' = "sendAta"
            /\ statusMsg' = IF handler = "single"
                            THEN Msg("Alchemy sponsoring ATA batch", i, Len(ataTxs), "", "")
                            ELSE statusMsg
       ELSE /\ pc' = PcAfterAtaSends
            /\ i' = IF pc' = "confirmAta"
                    THEN AtaConfirmStart(handler, signatures', Len(ataTxs))
                    ELSE 1
            /\ statusMsg' = IF handler = "single"
                            THEN Msg("Confirming ATA batches", Len(ataTxs), 0, "", "")
                            ELSE statusMsg
    /\ UNCHANGED <<uiVars, status, prevStatus, txSigs, ataExists, handler,
                   validRecipients, selectedTokens, tokenIdx, buildVars, totalAtas,
                   rejected, externalCreates, badOutcomes>>

\* handleSend 694-698 / handleMultiTokenSend 849-853: requestAlchemyFeePayer
\* returns success: false
SendAtaSponsorUnavailable ==
    /\ pc = "sendAta"
    /\ AlchemyEnabled
    /\ \E reason \in SponsorErrors : Throw(AtaErrorMsg(handler, i, mint, TRUE, reason))
    /\ rejected' = <<Rejection("ata", mint, i, Len(jobs))>>
    /\ UNCHANGED <<uiVars, ataExists, handler, validRecipients, selectedTokens, tokenIdx,
                   buildVars, signatures, totalAtas, i, jobs, externalCreates,
                   badOutcomes>>

\* handleSend 681, 702 / handleMultiTokenSend 838, 856: getLatestBlockhash or
\* sendRawTransaction throws
SendAtaRejected ==
    /\ pc = "sendAta"
    /\ \E reason \in RpcErrors : Throw(AtaErrorMsg(handler, i, mint, FALSE, reason))
    /\ rejected' = <<Rejection("ata", mint, i, Len(jobs))>>
    /\ UNCHANGED <<uiVars, ataExists, handler, validRecipients, selectedTokens, tokenIdx,
                   buildVars, signatures, totalAtas, i, jobs, externalCreates,
                   badOutcomes>>

\* handleSend 702-707, 726-728 / handleMultiTokenSend 856-860: the simulation of a
\* creation batch finds one of its accounts created already; sendRawTransaction
\* throws
SendAtaAccountExists ==
    /\ pc = "sendAta"
    /\ PreflightFails(ataTxs[i])
    /\ Throw(AtaErrorMsg(handler, i, mint, FALSE, AccountInUse))
    /\ rejected' = <<Rejection("ata", mint, i, Len(jobs))>>
    /\ UNCHANGED <<uiVars, ataExists, handler, validRecipients, selectedTokens, tokenIdx,
                   buildVars, signatures, totalAtas, i, jobs, externalCreates,
                   badOutcomes>>

\* The wait of confirmTransactionWithTimeout (162-201) on signature sig returns
\* outcome, which the job records
Waited(sig, outcome) ==
    /\ outcome # "CONFIRMED" => badOutcomes < MaxBadOutcomes
    /\ badOutcomes' = IF outcome # "CONFIRMED" THEN badOutcomes + 1 ELSE badOutcomes
    /\ jobs' = [jobs EXCEPT ![sig].confirmation = outcome, ![sig].waits = @ + 1]

\* handleSend 731-739 / handleMultiTokenSend 876-881: one wait of the creation
\* confirm loop; its result is discarded
ConfirmAta ==
    /\ pc = "confirmAta"
    /\ \E outcome \in Outcomes : Waited(signatures[i], outcome)
    /\ IF i < Len(signatures)
       THEN /\ i' = i + 1
            /\ pc' = "confirmAta"
            /\ UNCHANGED statusMsg
       ELSE /\ i' = 1
            /\ pc' = "sendTransfer"
            /\ statusMsg' = IF handler = "single"
                            THEN Msg("ATAs created! Now sending tokens", 0, 0, "", "")
                            ELSE Msg("Sending transfers", Len(buildRecipients),
                                     Len(transferTxs), SymbolOf(mint), "")
    /\ UNCHANGED <<uiVars, status, prevStatus, txSigs, ataExists, handler,
                   validRecipients, selectedTokens, tokenIdx, buildVars, signatures,
                   totalAtas, rejected, externalCreates>>

\* handleSend 745-768 / handleMultiTokenSend 883-903: the wallet signs and the
\* network accepts one transfer batch
SendTransferOk ==
    /\ pc = "sendTransfer"
    /\ jobs' = Append(jobs, Job("transfer", mint, i, transferTxs[i]))
    /\ signatures' = PushSig(signatures, Len(jobs) + 1)
    /\ IF i < Len(transferTxs)
       THEN /\ i' = i + 1
            /\ pc' = "sendTransfer"
            /\ statusMsg' = Msg("Sending batch", i, Len(transferTxs),
                                IF handler = "multi" THEN SymbolOf(mint) ELSE "", "")
       ELSE /\ pc' = "confirmTransfer"
            /\ i' = TransferConfirmStart(handler, signatures', Len(transferTxs))
            /\ statusMsg' = IF handler = "single"
                            THEN Msg("Confirming batch", 1, Len(transferTxs), "", "")
                            ELSE Msg("Sending batch", i, Len(transferTxs),
                                     SymbolOf(mint), "")
    /\ UNCHANGED <<uiVars, status, prevStatus, txSigs, ataExists, handler,
                   validRecipients, selectedTokens, tokenIdx, buildVars, totalAtas,
                   rejected, externalCreates, badOutcomes>>

\* handleSend 750, 755 / handleMultiTokenSend 888, 893: getLatestBlockhash or
\* sendTransaction throws (the wallet refuses, the simulation fails)
SendTransferRejected ==
    /\ pc = "sendTransfer"
    /\ \E reason \in RpcErrors : Throw(Msg("err.message", 0, 0, "", reason))
    /\ rejected' = <<Rejection("transfer", mint, i, Len(jobs))>>
    /\ UNCHANGED <<uiVars, ataExists, handler, validRecipients, selectedTokens, tokenIdx,
                   buildVars, signatures, totalAtas, i, jobs, externalCreates,
                   badOutcomes>>

\* handleSend 776-783 / handleMultiTokenSend 909-911
Succeed ==
    /\ txSigs' = ReportedSigs(signatures)
    /\ SetStatus("SUCCESS")
    /\ statusMsg' = SuccessMsg
    /\ pc' = "idle"

\* handleSend 770-783 / handleMultiTokenSend 903-911, 810-826: one wait of the
\* transfer confirm loop, its result discarded; after the last one the handler
\* reports success or turns to the next token
ConfirmTransfer ==
    /\ pc = "confirmTransfer"
    /\ \E outcome \in Outcomes : Waited(signatures[i], outcome)
    /\ IF i < Len(signatures)
       THEN /\ i' = i + 1
            /\ pc' = "confirmTransfer"
            /\ statusMsg' = IF handler = "single"
                            THEN Msg("Confirming batch",
                                     i + 2 - TransferConfirmStart(handler, signatures,
                                                                  Len(transferTxs)),
                                     Len(transferTxs), "", "")
                            ELSE statusMsg
            /\ UNCHANGED <<status, prevStatus, txSigs, tokenIdx, buildVars>>
       ELSE IF handler = "multi" /\ tokenIdx < Len(selectedTokens)
       THEN /\ tokenIdx' = tokenIdx + 1
            /\ i' = 0
            /\ statusMsg' = Msg("Token to wallets", tokenIdx + 1, Len(selectedTokens),
                                selectedTokens[tokenIdx + 1].symbol, "")
            /\ BeginBuild(RecipientsWithAmount(validRecipients, selectedTokens[tokenIdx + 1]),
                          selectedTokens[tokenIdx + 1].mint)
            /\ UNCHANGED <<status, prevStatus, txSigs>>
       ELSE /\ Succeed
            /\ i' = 0
            /\ UNCHANGED <<tokenIdx, buildVars>>
    /\ UNCHANGED <<uiVars, ataExists, handler, validRecipients, selectedTokens,
                   signatures, totalAtas, rejected, externalCreates>>

\* Another actor creates a receiving account of the asset being sent, between
\* the existence check and the creation (the check-then-create race of 236-271)
ExternalCreate ==
    /\ pc = "resolve"
    /\ externalCreates < MaxExternalCreates
    /\ \E w \in Wallets :
           /\ Ata(mint, w) \notin ataExists
           /\ ataExists' = ataExists \cup {Ata(mint, w)}
    /\ externalCreates' = externalCreates + 1
    /\ UNCHANGED <<uiVars, status, prevStatus, statusMsg, txSigs, pc, handler,
                   validRecipients, selectedTokens, tokenIdx, buildVars, signatures,
                   totalAtas, i, jobs, rejected, badOutcomes>>

Next ==
    \/ StartSend
    \/ ValidateSingle
    \/ ValidateMulti
    \/ ResolveStep
    \/ ResolveFail
    \/ Build
    \/ SendAtaOk
    \/ SendAtaSponsorUnavailable
    \/ SendAtaRejected
    \/ SendAtaAccountExists
    \/ ConfirmAta
    \/ SendTransferOk
    \/ SendTransferRejected
    \/ ConfirmTransfer
    \/ ExternalCreate

Spec == Init /\ [][Next]_vars

-----------------------------------------------------------------------------
(* The recipients box: handleParse and the effect on sameAmount / mode *)

\* everything handleParse and the effect leave alone
sendVars == <<tokenType, splMint, tokenAccounts, customTokens, status, prevStatus,
              txSigs, ataExists, pc, handler, validRecipients, selectedTokens,
              tokenIdx, buildVars, signatures, totalAtas, i, jobs, rejected,
              externalCreates, badOutcomes, watchVars, sponsorVars, amountVars,
              toolVars>>

\* the lengths, in tokens, of the long texts typed: those around the cap in
\* either mode (100 tokens in SAME mode, 200 in DIFF mode)
TextLengths ==
    {n \in 1..MaxTokens : \/ (n >= MAX_BATCH_SIZE - 1 /\ n <= MAX_BATCH_SIZE + 1)
                          \/ n >= 2 * MAX_BATCH_SIZE - 1}

ShortAlphabet == {"a", "1", " ", ","}
MaxShortText == 3

\* the texts typed: every text of up to MaxShortText characters of ShortAlphabet,
\* and the texts of n tokens, the k-th being the numeral k, each followed by a
\* separator
Texts ==
    UNION {[1..n -> ShortAlphabet] : n \in 0..MaxShortText}
    \cup {[k \in 1..(2 * n) |-> IF k % 2 = 1 THEN ToString((k + 1) \div 2)
                                ELSE IF k % 4 = 0 THEN "\n" ELSE ","] : n \in TextLengths}

\* text.split(/[\n\s,]+/).filter(token => token.trim() !== ''), 600: the runs of
\* characters between separators, in order (the halves of the text are split and
\* the run that crosses the middle is joined)
RECURSIVE Split(_)
Split(text) ==
    IF Len(text) = 0 THEN <<>>
    ELSE IF Len(text) = 1
    THEN IF text[1] \in Separators THEN <<>> ELSE <<text[1]>>
    ELSE LET h == Len(text) \div 2
             l == Split(SubSeq(text, 1, h))
             r == Split(SubSeq(text, h + 1, Len(text)))
         IN  IF text[h] \notin Separators /\ text[h + 1] \notin Separators
             THEN SubSeq(l, 1, Len(l) - 1) \o <<l[Len(l)] \o r[1]>> \o Tail(r)
             ELSE l \o r

SameAmounts == {"", "1"}

\* handleParse 604-610: one recipient per token, amount: sameAmount || '0'
ParseSame(tokens, amt) ==
    [k \in 1..Len(tokens) |-> Recipient(tokens[k], IF amt # "" THEN amt ELSE "0")]

\* Mutant of ParseDiff: an address without an amount after it is dropped
ParseDiffDropsOdd(tokens) ==
    [k \in 1..(Len(tokens) \div 2) |-> Recipient(tokens[2 * k - 1], tokens[2 * k])]

\* handleParse 611-620: for (i = 0; i < tokens.length; i += 2), amount: tokens[i + 1] || '0'
ParseDiff(tokens) ==
    [k \in 1..((Len(tokens) + 1) \div 2) |->
        Recipient(tokens[2 * k - 1], IF 2 * k <= Len(tokens) THEN tokens[2 * k] ELSE "0")]

\* Mutant of Capped: the list is stored whole
CappedNever(rs) == rs

\* handleParse 622-628: recipients.slice(0, MAX_BATCH_SIZE) when over the cap
Capped(rs) == IF Len(rs) > MAX_BATCH_SIZE THEN SubSeq(rs, 1, MAX_BATCH_SIZE) ELSE rs

LimitMsg == Msg("Limit exceeded: displaying first only", MAX_BATCH_SIZE, 0, "", "")

\* useEffect 631-635, run after a render in which sameAmount or mode changed
SameAmountEffect(rs, m, amt) ==
    IF m = "SAME" THEN [k \in 1..Len(rs) |-> Recipient(rs[k].address, amt)] ELSE rs

\* the dashboard as mounted: nothing typed, nothing sent
Mounted ==
    /\ tokenType = "SOL"
    /\ splMint = ""
    /\ tokenAccounts = <<>> /\ customTokens = <<>>
    /\ parsedRecipients = <<>>
    /\ rawText = <<>>
    /\ mode = "SAME"
    /\ sameAmount = ""
    /\ ataExists = {}
    /\ status = "IDLE"
    /\ statusMsg = NoMsg
    /\ txSigs = <<>>
    /\ pc = "idle"
    /\ handler = "none"
    /\ validRecipients = <<>>
    /\ selectedTokens = <<>>
    /\ tokenIdx = 0
    /\ buildRecipients = <<>>
    /\ mint = ""
    /\ chunks = <<>>
    /\ resolveIdx = 0
    /\ ataStats = [existing |-> 0, toCreate |-> 0]
    /\ atasToCreate = <<>>
    /\ ataTxs = <<>>
    /\ transferTxs = <<>>
    /\ signatures = <<>>
    /\ totalAtas = [created |-> 0, existed |-> 0]
    /\ i = 0
    /\ jobs = <<>>
    /\ classified = <<>>
    /\ rejected = <<>>
    /\ prevStatus = "IDLE"
    /\ externalCreates = 0
    /\ badOutcomes = 0

InitParse == Mounted /\ WatchIdle /\ SponsorIdle /\ AmountIdle /\ ToolsIdle

\* handleParse 597-629
HandleParse ==
    \E text \in Texts :
        LET tokens == Split(text)
            recipients == IF mode = "SAME" THEN ParseSame(tokens, sameAmount)
                                           ELSE ParseDiff(tokens)
        IN  /\ rawText' = text
            /\ statusMsg' = IF Len(recipients) > MAX_BATCH_SIZE THEN LimitMsg ELSE NoMsg
            /\ parsedRecipients' = Capped(recipients)
            /\ UNCHANGED <<mode, sameAmount, sendVars>>

\* the amount input, 1323, and the effect 631-635
SetSameAmount ==
    \E amt \in SameAmounts :
        /\ amt # sameAmount
        /\ sameAmount' = amt
        /\ parsedRecipients' = SameAmountEffect(parsedRecipients, mode, amt)
        /\ UNCHANGED <<rawText, mode, statusMsg, sendVars>>

\* the mode radio buttons, 1305/1309, and the effect 631-635
SetMode ==
    \E m \in {"SAME", "DIFF"} :
        /\ m # mode
        /\ mode' = m
        /\ parsedRecipients' = SameAmountEffect(parsedRecipients, m, sameAmount)
        /\ UNCHANGED <<rawText, sameAmount, statusMsg, sendVars>>

NextParse ==
    \/ HandleParse
    \/ SetSameAmount
    \/ SetMode

SpecParse == InitParse /\ [][NextParse]_vars

-----------------------------------------------------------------------------
(* The confirmation waits: confirmTransactionWithTimeout (App.tsx 162-201) and  *)
(* confirmTransaction (iwithdraw/Max.tsx 38-67). Time is Date.now() in ms; a    *)
(* call of the RPC takes 0..MaxLatencyTicks ticks of TickMs.                    *)

Levels == <<"processed", "confirmed", "finalized">>

\* what getSignatureStatuses / getSignatureStatus can answer
Responses(w) ==
    {Response("null", FALSE, ""), Response("throw", FALSE, "")}
    \cup (IF w = "App" THEN {Response("empty", FALSE, "")} ELSE {})
    \cup {Response("status", e, Levels[l]) : e \in BOOLEAN, l \in 1..3}

\* the commitment argument: a string in App.tsx, 'confirmed' | 'finalized' in Max.tsx
Commitments(w) == IF w = "App" THEN {"processed", "confirmed", "finalized"}
                              ELSE {"confirmed", "finalized"}

Latencies == {k * TickMs : k \in 0..MaxLatencyTicks}

Timeout(w) == IF w = "App" THEN timeoutMs ELSE CONFIRMATION_TIMEOUT
Interval(w) == IF w = "App" THEN pollIntervalMs ELSE sweeperPollIntervalMs

\* status.confirmationStatus === commitment || status.confirmationStatus === 'finalized'
LevelReached(level, commitment) == level = commitment \/ level = "finalized"

\* Mutant of OnNotVisible: a transaction the network does not show yet has failed
OnNotVisibleFails == "FAILED"

\* App.tsx 174-184, 195-197: no status yet, or the RPC threw: sleep and go on
OnNotVisible == "PENDING"

\* Mutant of VerdictApp: the level is tested before the error
VerdictAppLevelFirst(r, commitment) ==
    IF r.kind \in {"empty", "null", "throw"} THEN OnNotVisible
    ELSE IF LevelReached(r.level, commitment) THEN "CONFIRMED"
    ELSE IF r.err THEN "FAILED"
    ELSE "PENDING"

\* what one answer makes of the wait, in the order the code tests it
\* App.tsx 174-197
VerdictApp(r, commitment) ==
    IF r.kind \in {"empty", "null", "throw"} THEN OnNotVisible
    ELSE IF r.err THEN "FAILED"
    ELSE IF LevelReached(r.level, commitment) THEN "CONFIRMED"
    ELSE "PENDING"

\* Max.tsx 46-62
VerdictMax(r, commitment) ==
    IF r.kind \in {"null", "throw"} THEN "PENDING"
    ELSE IF LevelReached(r.level, commitment)
         THEN (IF r.err THEN "FAILED" ELSE "CONFIRMED")
    ELSE "PENDING"

Verdict(w, r, commitment) ==
    IF w = "App" THEN VerdictApp(r, commitment) ELSE VerdictMax(r, commitment)

\* the value returned for each way a wait ends: an object in App.tsx (187, 191, 200),
\* a boolean in Max.tsx (52, 54, 66), kept here in the success field
Returned(w, outcome) ==
    IF w = "App"
    THEN CASE outcome = "CONFIRMED" -> Result(TRUE, "")
           [] outcome = "FAILED" -> Result(FALSE, "Transaction failed: err")
           [] OTHER -> Result(FALSE, "Transaction confirmation timeout")
    ELSE Result(outcome = "CONFIRMED", "")

Return(outcome) ==
    /\ wPc' = "returned"
    /\ wOutcome' = outcome
    /\ wResult' = Returned(watcher, outcome)
    /\ returnsSeen' = returnsSeen \cup {<<watcher, Returned(watcher, outcome), outcome>>}

InitWatch ==
    /\ Mounted
    /\ SponsorIdle
    /\ AmountIdle
    /\ ToolsIdle
    /\ watcher \in {"App", "Max"}
    /\ wCommitment \in Commitments(watcher)
    /\ wPc = "check"
    /\ now = 0
    /\ wStart = 0
    /\ wLast = NoResponse
    /\ wResult = NoResult
    /\ wOutcome = "PENDING"
    /\ returnsSeen = {}

runVars == <<tokenType, splMint, tokenAccounts, customTokens, parsedRecipients, parseVars,
             status, prevStatus, statusMsg, txSigs, ataExists, pc, handler,
             validRecipients, selectedTokens, tokenIdx, buildVars, signatures,
             totalAtas, i, jobs, rejected, externalCreates, badOutcomes, sponsorVars,
             amountVars, toolVars>>

\* while (Date.now() - startTime < timeout), and the return after the loop
WatchCheck ==
    /\ wPc = "check"
    /\ IF now - wStart < Timeout(watcher)
       THEN /\ wPc' = "polling"
            /\ UNCHANGED <<wOutcome, wResult, returnsSeen>>
       ELSE Return("TIMED_OUT")
    /\ UNCHANGED <<watcher, wCommitment, now, wStart, wLast, runVars>>

\* the RPC answers, or throws, after some latency; the answer is looked at
WatchPoll ==
    /\ wPc = "polling"
    /\ \E r \in Responses(watcher), latency \in Latencies :
           /\ now' = now + latency
           /\ wLast' = r
           /\ LET verdict == Verdict(watcher, r, wCommitment)
              IN  IF verdict = "PENDING"
                  THEN /\ wPc' = "sleeping"
                       /\ UNCHANGED <<wOutcome, wResult, returnsSeen>>
                  ELSE Return(verdict)
    /\ UNCHANGED <<watcher, wCommitment, wStart, runVars>>

\* await new Promise(resolve => setTimeout(resolve, interval))
WatchSleep ==
    /\ wPc = "sleeping"
    /\ now' = now + Interval(watcher)
    /\ wPc' = "check"
    /\ UNCHANGED <<watcher, wCommitment, wStart, wLast, wResult, wOutcome, returnsSeen,
                   runVars>>

\* the next call of the same wait; only now - startTime matters, so the clock
\* is read from 0 again
WatchAgain ==
    /\ wPc = "returned"
    /\ wPc' = "check"
    /\ now' = 0
    /\ wStart' = 0
    /\ wLast' = NoResponse
    /\ wResult' = NoResult
    /\ wOutcome' = "PENDING"
    /\ UNCHANGED <<watcher, wCommitment, returnsSeen, runVars>>

NextWatch ==
    \/ WatchCheck
    \/ WatchPoll
    \/ WatchSleep
    \/ WatchAgain

SpecWatch == InitWatch /\ [][NextWatch]_vars

\* the RPC answers and timers fire: a wait in progress takes its next step
SpecWatchLive ==
    /\ SpecWatch
    /\ WF_vars(WatchCheck) /\ WF_vars(WatchPoll) /\ WF_vars(WatchSleep)

-----------------------------------------------------------------------------
(* requestAlchemyFeePayer (App.tsx 113-160): one POST to the gas manager *)

\* the unsigned creation transactions handed to the function, base64
Requests == {"unsigned1", "unsigned2"}

\* the request countersigned by the sponsor as fee payer
Sponsored(request) == IF request = "unsigned1" THEN "sponsored1" ELSE "sponsored2"

ErrorMessages == {"", "Failed to fetch"}

\* the bodies the service can answer a request with: data.error absent, or an
\* object with or without a message; data.result absent, or an object with or
\* without a (possibly empty) serializedTransaction
Bodies(request) ==
    {Data(e, em, r, st) :
        e \in BOOLEAN, em \in {Absent, "", "policy rejected"},
        r \in BOOLEAN, st \in {Absent, "", Sponsored(request)}}

WellFormed(d) ==
    /\ ~d.error => d.errorMessage = Absent
    /\ ~d.result => d.serializedTransaction = Absent

\* fetch rejects; response.json() rejects; the body is the JSON null; a body
Replies(request) ==
    {Reply(TRUE, FALSE, m, FALSE, NoData) : m \in ErrorMessages}
    \cup {Reply(FALSE, TRUE, m, FALSE, NoData) : m \in ErrorMessages}
    \cup {Reply(FALSE, FALSE, "", TRUE, NoData)}
    \cup {Reply(FALSE, FALSE, "", FALSE, d) : d \in {b \in Bodies(request) : WellFormed(b)}}

\* `Alchemy error: ${data.error.message || JSON.stringify(data.error)}`
ServiceReason(d) ==
    IF d.errorMessage = "policy rejected" THEN "Alchemy error: policy rejected"
    ELSE "Alchemy error: {\"code\":-32600}"

\* Mutant of CatchReason: the message of the exception as it is
CatchReasonRaw(message) == message

\* error.message || 'Failed to request fee payer from Alchemy'
CatchReason(message) ==
    IF message # "" THEN message ELSE "Failed to request fee payer from Alchemy"

\* 134-152: what the function makes of a parsed body
Inspect(d) ==
    IF d.error THEN SponsorResult(FALSE, Absent, ServiceReason(d))
    ELSE IF ~d.result \/ d.serializedTransaction \in {Absent, ""}
         THEN SponsorResult(FALSE, Absent, "Invalid response from Alchemy Gas Manager")
    ELSE SponsorResult(TRUE, d.serializedTransaction, Absent)

\* 153-158: the catch block
Caught(message) == SponsorResult(FALSE, Absent, CatchReason(message))

InitSponsor ==
    /\ Mounted
    /\ WatchIdle
    /\ AmountIdle
    /\ ToolsIdle
    /\ sPc = "fetch"
    /\ sRequest \in Requests
    /\ sReply \in Replies(sRequest)
    /\ sResult = NoSponsorResult

\* const response = await fetch(...), 120-132
SponsorFetch ==
    /\ sPc = "fetch"
    /\ IF sReply.fetchThrows
       THEN sPc' = "returned" /\ sResult' = Caught(sReply.message)
       ELSE sPc' = "json" /\ UNCHANGED sResult
    /\ UNCHANGED <<sRequest, sReply, tokenType, splMint, tokenAccounts, customTokens,
                   parsedRecipients, parseVars, status, prevStatus, statusMsg, txSigs,
                   ataExists, pc, handler, validRecipients, selectedTokens, tokenIdx,
                   buildVars, signatures, totalAtas, i, jobs, rejected, externalCreates,
                   badOutcomes, watchVars, amountVars, toolVars>>

\* const data = await response.json(), 134
SponsorJson ==
    /\ sPc = "json"
    /\ IF sReply.jsonThrows
       THEN sPc' = "returned" /\ sResult' = Caught(sReply.message)
       ELSE sPc' = "inspect" /\ UNCHANGED sResult
    /\ UNCHANGED <<sRequest, sReply, tokenType, splMint, tokenAccounts, customTokens,
                   parsedRecipients, parseVars, status, prevStatus, statusMsg, txSigs,
                   ataExists, pc, handler, validRecipients, selectedTokens, tokenIdx,
                   buildVars, signatures, totalAtas, i, jobs, rejected, externalCreates,
                   badOutcomes, watchVars, amountVars, toolVars>>

\* 136-152
SponsorInspect ==
    /\ sPc = "inspect"
    /\ sPc' = "returned"
    /\ sResult' = IF sReply.nullBody
                  THEN Caught("Cannot read properties of null (reading 'error')")
                  ELSE Inspect(sReply.data)
    /\ UNCHANGED <<sRequest, sReply, tokenType, splMint, tokenAccounts, customTokens,
                   parsedRecipients, parseVars, status, prevStatus, statusMsg, txSigs,
                   ataExists, pc, handler, validRecipients, selectedTokens, tokenIdx,
                   buildVars, signatures, totalAtas, i, jobs, rejected, externalCreates,
                   badOutcomes, watchVars, amountVars, toolVars>>

NextSponsor ==
    \/ SponsorFetch
    \/ SponsorJson
    \/ SponsorInspect

SpecSponsor == InitSponsor /\ [][NextSponsor]_vars

-----------------------------------------------------------------------------
(* The amount of a transfer instruction (App.tsx 279):                          *)
(*   BigInt(Math.round(parseFloat(recipient.amount) * Math.pow(10, decimals)))  *)
(* parseFloat, * and Math.round work on IEEE-754 doubles and BigInt is exact.   *)
(* A natural number is kept here as its digits in base 2^LimbBits, least        *)
(* significant first and the highest one not 0, or as its bits in the same      *)
(* order, so that no value is cut to the width of a machine integer. Powers of  *)
(* ten are taken two decimal digits at a time, the most such an integer holds   *)
(* next to a limb.                                                               *)

LimbBits == 24
Base == 2 ^ LimbBits
MantissaBits == 53

Highest(S) == CHOOSE x \in S : \A y \in S : y <= x
Lowest(S) == CHOOSE x \in S : \A y \in S : x <= y

TrimLimbs(a) ==
    LET used == {j \in 1..Len(a) : a[j] # 0}
    IN  IF used = {} THEN <<>> ELSE SubSeq(a, 1, Highest(used))

\* a * k + c, for small k and c
RECURSIVE MulSmall(_, _, _)
MulSmall(a, k, c) ==
    IF a = <<>>
    THEN IF c = 0 THEN <<>> ELSE <<c>>
    ELSE LET t == Head(a) * k + c
         IN  <<t % Base>> \o MulSmall(Tail(a), k, t \div Base)

RECURSIVE MulPow10(_, _)
MulPow10(a, d) ==
    IF d = 0 \/ a = <<>>
    THEN a
    ELSE IF d = 1
         THEN MulSmall(a, 10, 0)
         ELSE MulPow10(MulSmall(a, 100, 0), d - 2)

\* floor(a / k) and a mod k, for small k
RECURSIVE DivModRaw(_, _)
DivModRaw(a, k) ==
    IF a = <<>>
    THEN [q |-> <<>>, r |-> 0]
    ELSE LET h == DivModRaw(Tail(a), k)
             t == h.r * Base + Head(a)
         IN  [q |-> <<t \div k>> \o h.q, r |-> t % k]

DivMod(a, k) == LET d == DivModRaw(a, k) IN [q |-> TrimLimbs(d.q), r |-> d.r]

\* floor(a / 10^f), and whether anything was cut off
RECURSIVE DivPow10From(_, _, _)
DivPow10From(a, f, inexact) ==
    IF f = 0
    THEN [q |-> a, inexact |-> inexact]
    ELSE LET step == IF f = 1 THEN 1 ELSE 2
             d == DivMod(a, 10 ^ step)
         IN  IF d.r = 0
             THEN DivPow10From(d.q, f - step, inexact)
             ELSE DivPow10From(d.q, f - step, TRUE)

DivPow10(a, f) == DivPow10From(a, f, FALSE)

\* a * Base^n
ShlLimbs(a, n) == IF a = <<>> THEN <<>> ELSE [j \in 1..n |-> 0] \o a

RECURSIVE FromDigitsFrom(_, _)
FromDigitsFrom(a, ds) ==
    IF ds = <<>>
    THEN a
    ELSE IF Len(ds) = 1
         THEN MulSmall(a, 10, ds[1])
         ELSE IF a = <<>> /\ ds[1] = 0 /\ ds[2] = 0
              THEN FromDigitsFrom(<<>>, SubSeq(ds, 3, Len(ds)))
              ELSE FromDigitsFrom(MulSmall(a, 100, 10 * ds[1] + ds[2]), SubSeq(ds, 3, Len(ds)))

FromDigits(ds) == FromDigitsFrom(<<>>, ds)

RECURSIVE ToDigits(_)
ToDigits(a) == IF a = <<>> THEN <<>> ELSE LET d == DivMod(a, 10) IN ToDigits(d.q) \o <<d.r>>

\* the bits of a number, and the number of a sequence of bits
BitLen(a) ==
    IF a = <<>>
    THEN 0
    ELSE LimbBits * (Len(a) - 1)
         + (CHOOSE k \in 1..LimbBits : 2 ^ (k - 1) <= a[Len(a)] /\ a[Len(a)] < 2 ^ k)

ToBits(a) ==
    [j \in 1..BitLen(a) |-> (a[(j - 1) \div LimbBits + 1] \div 2 ^ ((j - 1) % LimbBits)) % 2]

RECURSIVE BitsValue(_)
BitsValue(b) ==
    IF Len(b) = 0
    THEN 0
    ELSE IF Len(b) = 1
         THEN b[1]
         ELSE LET h == Len(b) \div 2
              IN  BitsValue(SubSeq(b, 1, h)) + 2 ^ h * BitsValue(SubSeq(b, h + 1, Len(b)))

FromBits(b) ==
    [n \in 1..((Len(b) + LimbBits - 1) \div LimbBits) |->
        BitsValue(SubSeq(b, LimbBits * (n - 1) + 1,
                         IF LimbBits * n < Len(b) THEN LimbBits * n ELSE Len(b)))]

\* b * 2^k, floor(b / 2^k) and b + 1 on the bits
Shl(b, k) == IF Len(b) = 0 THEN <<>> ELSE [j \in 1..k |-> 0] \o b
Shr(b, k) == IF k >= Len(b) THEN <<>> ELSE SubSeq(b, k + 1, Len(b))
Inc(b) ==
    LET zeros == {j \in 1..Len(b) : b[j] = 0}
    IN  IF zeros = {}
        THEN [j \in 1..(Len(b) + 1) |-> IF j = Len(b) + 1 THEN 1 ELSE 0]
        ELSE [j \in 1..Len(b) |-> IF j < Lowest(zeros) THEN 0
                                  ELSE IF j = Lowest(zeros) THEN 1 ELSE b[j]]

\* the double nearest to q * 2^e (plus a little more when inexact), a tie going
\* to the even mantissa: the rounding of every operation on doubles
RoundsUp(roundBit, below, odd) == roundBit = 1 /\ (below \/ odd)
RoundToDouble(q, inexact, e) ==
    LET b == ToBits(q)
        s == Len(b) - MantissaBits
    IN  IF s <= 0
        THEN Double(b, e)
        ELSE LET kept == Shr(b, s)
                 below == inexact \/ \E j \in 1..(s - 1) : b[j] = 1
                 m == IF RoundsUp(b[s], below, kept[1] = 1) THEN Inc(kept) ELSE kept
             IN  IF Len(m) > MantissaBits
                 THEN Double(Shr(m, 1), e + s + 1)
                 ELSE Double(m, e + s)

\* the double nearest to n / 10^f
NearestQuotient(n, f) ==
    LET k == (MantissaBits + 11 + 4 * f) \div LimbBits + 1
        d == DivPow10(ShlLimbs(n, k), f)
    IN  RoundToDouble(d.q, d.inexact, 0 - LimbBits * k)

\* parseFloat of a decimal string: the double nearest to its value
parseFloat(amount) == NearestQuotient(FromDigits(amount.int \o amount.frac), Len(amount.frac))

\* x * Math.pow(10, decimals): 10^decimals is a double exactly, the product is rounded
TimesPow10(x, decimals) == RoundToDouble(MulPow10(FromBits(x.m), decimals), FALSE, x.e)

\* Math.round: floor(x + 0.5), for x >= 0
MathRound(x) ==
    IF x.e >= 0
    THEN Shl(x.m, x.e)
    ELSE LET t == 0 - x.e
             half == t <= Len(x.m) /\ x.m[t] = 1
         IN  IF half THEN Inc(Shr(x.m, t)) ELSE Shr(x.m, t)

\* Math.floor, for x >= 0: the bits of the integer
MathFloor(x) == IF x.e >= 0 THEN Shl(x.m, x.e) ELSE Shr(x.m, 0 - x.e)

\* x < y, for doubles x, y >= 0
Less(x, y) ==
    LET e == IF x.e < y.e THEN x.e ELSE y.e
        a == Shl(x.m, x.e - e)
        b == Shl(y.m, y.e - e)
    IN  \/ Len(a) < Len(b)
        \/ /\ Len(a) = Len(b)
           /\ \E j \in 1..Len(a) : a[j] < b[j] /\ \A h \in (j + 1)..Len(a) : a[h] = b[h]

\* the decimal strings and scales a transfer is built with
Decimals == {2, 6, 9}

Amounts ==
    { Amount(<<1>>, <<5>>),
      Amount(<<0>>, <<0, 0, 0, 0, 0, 0, 0, 0, 1>>),
      Amount(<<1>>, <<>>),
      Amount(<<0>>, <<>>),
      Amount(<<0>>, <<5>>),
      Amount(<<0>>, <<0, 7>>),
      Amount(<<0>>, <<1>>),
      Amount(<<1, 0, 0>>, <<>>),
      Amount(<<1, 2>>, <<3, 4, 5, 6, 7, 8>>),
      Amount(<<2>>, <<6, 7, 5>>),
      Amount(<<1>>, <<0, 0, 5>>),
      Amount(<<0>>, <<1, 4, 5>>),
      Amount(<<0>>, <<0, 0, 0, 0, 0, 0, 0, 0, 7, 5>>),
      Amount(<<0>>, <<0, 0, 0, 0, 0, 0, 0, 0, 0, 5>>),
      Amount(<<8, 5, 1, 9, 3, 0, 3>>, <<8, 6, 3, 8, 6, 2, 6, 9, 4>>) }

InitAmount ==
    /\ Mounted
    /\ WatchIdle
    /\ SponsorIdle
    /\ ToolsIdle
    /\ aPc = "parse"
    /\ aAmount \in Amounts
    /\ aDecimals \in Decimals
    /\ aFloat = Double(<<>>, 0)
    /\ aUnits = <<>>

notAmountVars == <<tokenType, splMint, tokenAccounts, customTokens, parsedRecipients, parseVars,
                   status, prevStatus, statusMsg, txSigs, ataExists, pc, handler,
                   validRecipients, selectedTokens, tokenIdx, buildVars, signatures,
                   totalAtas, i, jobs, rejected, externalCreates, badOutcomes, watchVars,
                   sponsorVars, toolVars>>

\* parseFloat(recipient.amount)
AmountParse ==
    /\ aPc = "parse"
    /\ aFloat' = parseFloat(aAmount)
    /\ aPc' = "scale"
    /\ UNCHANGED <<aAmount, aDecimals, aUnits, notAmountVars>>

\* ... * Math.pow(10, decimals)
AmountScale ==
    /\ aPc = "scale"
    /\ aFloat' = TimesPow10(aFloat, aDecimals)
    /\ aPc' = "round"
    /\ UNCHANGED <<aAmount, aDecimals, aUnits, notAmountVars>>

\* BigInt(Math.round(...))
AmountRound ==
    /\ aPc = "round"
    /\ aUnits' = FromBits(MathRound(aFloat))
    /\ aPc' = "done"
    /\ UNCHANGED <<aAmount, aDecimals, aFloat, notAmountVars>>

NextAmount ==
    \/ AmountParse
    \/ AmountScale
    \/ AmountRound

SpecAmount == InitAmount /\ [][NextAmount]_vars

-----------------------------------------------------------------------------
(* The wallet sweeper: startSweep and sweepSolFromWallet (iwithdraw/Max.tsx     *)
(* 69-268). The sweeps of a group are in flight together and each takes its     *)
(* next step when the RPC answers it. The times of a result (timeMs, totalTime) *)
(* are left out.                                                                *)

PARALLEL_WALLETS == 10
\* LAMPORTS_PER_SOL is 10^9
LamportsPerSolDigits == 9
\* the most keys configured
MaxKeys == 11

\* RESERVE_SOL = 0.002, as the double it is
RESERVE_SOL == parseFloat(Amount(<<0>>, <<0, 0, 2>>))

\* a number of lamports (below 2^31) as limbs
Limbs(n) == TrimLimbs(<<n % Base, n \div Base>>)

\* lamports / LAMPORTS_PER_SOL
InSol(lamports) == NearestQuotient(Limbs(lamports), LamportsPerSolDigits)

\* Math.floor(RESERVE_SOL * LAMPORTS_PER_SOL), 96
reserveLamports == BitsValue(MathFloor(TimesPow10(RESERVE_SOL, LamportsPerSolDigits)))

\* Mutant of AmountToSend: the whole balance is sent
AmountToSendAll(balance) == balance

\* balance - reserveLamports, 97
AmountToSend(balance) == balance - reserveLamports

\* a configured key: whether parsePrivateKey accepts it, the balance getBalance
\* reads, the call of the RPC that throws ("none": no call does) and what the
\* network shows of the transaction while confirmTransaction polls
Fate(valid, balance, throws, outcome) ==
    [valid |-> valid, balance |-> balance, throws |-> throws, outcome |-> outcome]

Balances == {0, 1999999, 2000000, 2000001, 5000000}

InvalidKey == Fate(FALSE, 0, "none", "CONFIRMED")

Fates ==
    {InvalidKey, Fate(TRUE, 0, "getBalance", "CONFIRMED")}
    \cup {Fate(TRUE, b, "none", "CONFIRMED") : b \in Balances}
    \cup {Fate(TRUE, 2000001, t, "CONFIRMED") : t \in {"getLatestBlockhash", "sendRawTransaction"}}
    \cup {Fate(TRUE, 2000001, "none", o) : o \in {"FAILED", "TIMED_OUT"}}

\* the keys the list is filled up with: unusable ones, or empty wallets
Background == {InvalidKey, Fate(TRUE, 0, "none", "CONFIRMED")}

\* the first key of each of the first two groups is any key
Special == {1, PARALLEL_WALLETS + 1}

KeyLists ==
    {[k \in 1..n |-> IF k \in Special THEN f ELSE g] :
        n \in 0..MaxKeys, f \in Fates, g \in Background}

\* keypair.publicKey.toBase58() of key k, `Wallet ${k}` of an unusable key k,
\* the signature of the transfer of key k, and null
Address(k) == <<"address", k>>
WalletNo(k) == <<"Wallet", k>>
SignatureOf(k) == <<"signature", k>>
NoSignature == <<>>

Zero == Double(<<>>, 0)

SweepResult(wallet, st, balanceBefore, amountSent, sig, message) ==
    [wallet |-> wallet, status |-> st, balanceBefore |-> balanceBefore,
     amountSent |-> amountSent, signature |-> sig, message |-> message]

NoSweepResult == SweepResult(<<>>, "none", Zero, Zero, NoSignature, <<>>)

\* one call of sweepSolFromWallet: where it is, its locals (balance, the lamports
\* of the transfer instruction, 0 while none is built, and the signature), what
\* ended its confirmation wait and the value it returned
Sweep(k) ==
    [key |-> k, pc |-> "getBalance", balance |-> 0, lamports |-> 0,
     signature |-> NoSignature, observed |-> "PENDING", result |-> NoSweepResult]

\* return ..., in sweep j
SweepReturns(j, result) ==
    sweeps' = [sweeps EXCEPT ![j].pc = "returned", ![j].result = result]

\* the catch block, 169-179
SweepCaught(j, call) ==
    SweepReturns(j, SweepResult(Address(sweeps[j].key), "error", Zero, Zero, NoSignature,
                                <<"Failed", call>>))

\* Mutant of StatusAfterWait: a sent transaction is a success
StatusAfterWaitSent(confirmed) == "success"

\* the status of a sweep whose confirmation wait returned, 146-162
StatusAfterWait(confirmed) == IF confirmed THEN "success" ELSE "timeout"

\* the disabled attribute of the start button, 353
SweepDisabled == sweeping \/ Len(swKeys) = 0

notSweepVars == <<tokenType, splMint, tokenAccounts, customTokens, parsedRecipients, parseVars,
                  status, prevStatus, statusMsg, txSigs, ataExists, pc, handler,
                  validRecipients, selectedTokens, tokenIdx, buildVars, signatures,
                  totalAtas, i, jobs, rejected, externalCreates, badOutcomes, watchVars,
                  sponsorVars, amountVars, closeVars, utilVars>>

InitSweep ==
    /\ Mounted
    /\ WatchIdle
    /\ SponsorIdle
    /\ AmountIdle
    /\ CloseIdle
    /\ UtilIdle
    /\ swKeys \in KeyLists
    /\ swPc = "idle"
    /\ swI = 0
    /\ sweeps = <<>>
    /\ allResults = <<>>
    /\ sweeping = FALSE
    /\ results = <<>>
    /\ progress = [current |-> 0, total |-> 0]
    /\ activeWallets = <<>>

\* startSweep 198-213: the click on the start button
StartSweep ==
    /\ ~SweepDisabled
    /\ sweeping' = TRUE
    /\ results' = <<>>
    /\ progress' = [current |-> 0, total |-> Len(swKeys)]
    /\ activeWallets' = <<>>
    /\ allResults' = <<>>
    /\ swI' = 0
    /\ swPc' = "group"
    /\ sweeps' = <<>>
    /\ UNCHANGED <<swKeys, notSweepVars>>

\* 215-251: the keys of the group are parsed, an unusable one leaving its result,
\* and a sweep is started for each of the others
SweepGroup ==
    /\ swPc = "group"
    /\ LET last == IF swI + PARALLEL_WALLETS < Len(swKeys) THEN swI + PARALLEL_WALLETS
                                                         ELSE Len(swKeys)
           batch == [k \in 1..(last - swI) |-> swI + k]
           unusable == SelectSeq(batch, LAMBDA k : ~swKeys[k].valid)
           validKeypairs == SelectSeq(batch, LAMBDA k : swKeys[k].valid)
       IN  /\ allResults' = allResults \o
                  [j \in 1..Len(unusable) |->
                      SweepResult(WalletNo(unusable[j]), "error", Zero, Zero, NoSignature,
                                  <<"Invalid private key">>)]
           /\ activeWallets' = [j \in 1..Len(validKeypairs) |-> Address(validKeypairs[j])]
           /\ sweeps' = [j \in 1..Len(validKeypairs) |-> Sweep(validKeypairs[j])]
    /\ swPc' = "sweeping"
    /\ UNCHANGED <<swKeys, swI, sweeping, results, progress, notSweepVars>>

\* 79-118: getBalance answers sweep j
SweepBalance(j) ==
    /\ sweeps[j].pc = "getBalance"
    /\ LET fate == swKeys[sweeps[j].key]
           balance == fate.balance
           balanceInSol == InSol(balance)
           amountToSend == AmountToSend(balance)
       IN  IF fate.throws = "getBalance"
           THEN SweepCaught(j, "getBalance")
           ELSE IF Less(balanceInSol, RESERVE_SOL)
           THEN SweepReturns(j, SweepResult(Address(sweeps[j].key), "insufficient",
                                            balanceInSol, Zero, NoSignature,
                                            <<"Insufficient balance">>))
           ELSE IF amountToSend <= 0
           THEN SweepReturns(j, SweepResult(Address(sweeps[j].key), "insufficient",
                                            balanceInSol, Zero, NoSignature,
                                            <<"Amount after fees would be zero or negative">>))
           ELSE sweeps' = [sweeps EXCEPT ![j].pc = "getLatestBlockhash",
                                         ![j].balance = balance,
                                         ![j].lamports = amountToSend]

\* 121-127: getLatestBlockhash answers sweep j, the transaction is signed
SweepBlockhash(j) ==
    /\ sweeps[j].pc = "getLatestBlockhash"
    /\ IF swKeys[sweeps[j].key].throws = "getLatestBlockhash"
       THEN SweepCaught(j, "getLatestBlockhash")
       ELSE sweeps' = [sweeps EXCEPT ![j].pc = "sendRawTransaction"]

\* 130-141: sendRawTransaction answers sweep j
SweepSend(j) ==
    /\ sweeps[j].pc = "sendRawTransaction"
    /\ IF swKeys[sweeps[j].key].throws = "sendRawTransaction"
       THEN SweepCaught(j, "sendRawTransaction")
       ELSE sweeps' = [sweeps EXCEPT ![j].pc = "confirmTransaction",
                                     ![j].signature = SignatureOf(sweeps[j].key)]

\* 144-167: confirmTransaction returns to sweep j
SweepConfirm(j) ==
    /\ sweeps[j].pc = "confirmTransaction"
    /\ LET outcome == swKeys[sweeps[j].key].outcome
           confirmed == Returned("Max", outcome).success
           st == StatusAfterWait(confirmed)
           balanceInSol == InSol(sweeps[j].balance)
       IN  sweeps' = [sweeps EXCEPT
               ![j].pc = "returned",
               ![j].observed = outcome,
               ![j].result =
                   IF st = "timeout"
                   THEN SweepResult(Address(sweeps[j].key), st, balanceInSol, Zero,
                                    sweeps[j].signature,
                                    <<"Transaction sent but confirmation timeout">>)
                   ELSE SweepResult(Address(sweeps[j].key), st, balanceInSol,
                                    InSol(sweeps[j].lamports), sweeps[j].signature,
                                    <<"Confirmed! Sent">>)]

\* an answer of the RPC to one of the sweeps in flight
SweepStep ==
    /\ swPc = "sweeping"
    /\ \E j \in 1..Len(sweeps) :
           \/ SweepBalance(j)
           \/ SweepBlockhash(j)
           \/ SweepSend(j)
           \/ SweepConfirm(j)
    /\ UNCHANGED <<swKeys, swPc, swI, allResults, sweeping, results, progress,
                   activeWallets, notSweepVars>>

\* Mutant of Settled: the first sweep to return ends the wait for the group
SettledByFirst(calls) == \E j \in 1..Len(calls) : calls[j].pc = "returned"

\* await Promise.all(...), 247: every call of the group has returned
Settled(calls) == \A j \in 1..Len(calls) : calls[j].pc = "returned"

\* 247-265: Promise.all of the group resolves; the results are stored and the
\* loop goes on or ends
GroupDone ==
    /\ swPc = "sweeping"
    /\ Settled(sweeps)
    /\ allResults' = allResults \o [j \in 1..Len(sweeps) |-> sweeps[j].result]
    /\ results' = allResults'
    /\ progress' = [current |-> IF swI + PARALLEL_WALLETS < Len(swKeys)
                                THEN swI + PARALLEL_WALLETS ELSE Len(swKeys),
                    total |-> Len(swKeys)]
    /\ swI' = swI + PARALLEL_WALLETS
    /\ IF swI + PARALLEL_WALLETS < Len(swKeys)
       THEN swPc' = "group" /\ UNCHANGED <<sweeping, activeWallets>>
       ELSE swPc' = "done" /\ sweeping' = FALSE /\ activeWallets' = <<>>
    /\ UNCHANGED <<swKeys, sweeps, notSweepVars>>

NextSweep ==
    \/ StartSweep
    \/ SweepGroup
    \/ SweepStep
    \/ GroupDone

SpecSweep == InitSweep /\ [][NextSweep]_vars

-----------------------------------------------------------------------------
(* The account closer: processWallet and closeAccountsBatch (iwithdraw/Max.tsx  *)
(* 582-713), for one wallet. solReclaimed and timeMs of the result are left out. *)

BATCH_SIZE == 5
\* the most token accounts a wallet owns
MaxAccounts == 11

\* a token account: its number and whether it holds tokens
TokenAccount(n, funded) == [address |-> <<"account", n>>, funded |-> funded]

\* the accounts found: none funded, or every second one
AccountLists ==
    {[n \in 1..len |-> TokenAccount(n, every2 /\ n % 2 = 1)] :
        len \in 0..MaxAccounts, every2 \in BOOLEAN}

\* 590-616: a burn before the close of an account that holds tokens
CloseInstrs(account) ==
    IF account.funded
    THEN <<[kind |-> "burn", account |-> account.address],
           [kind |-> "close", account |-> account.address]>>
    ELSE <<[kind |-> "close", account |-> account.address]>>

RECURSIVE CloseTransaction(_)
CloseTransaction(accounts) ==
    IF accounts = <<>> THEN <<>>
    ELSE CloseInstrs(Head(accounts)) \o CloseTransaction(Tail(accounts))

\* what closeAccountsBatch returns: 629 when sendAndConfirmTransaction returned
\* a signature, 630-633 when anything threw
BatchReturn(ok, accounts, sig) ==
    IF ok THEN [success |-> Len(accounts), signature |-> sig]
          ELSE [success |-> 0, signature |-> NoSignature]

\* Mutant of Counted: the accounts of a batch are counted however it ended
CountedAlways(result, accounts) == TRUE

\* result.success > 0 && result.signature, 677
Counted(result, accounts) == result.success > 0 /\ result.signature # NoSignature

\* 694
WalletStatus(closed) == IF closed > 0 THEN "success" ELSE "error"

notCloseVars == <<tokenType, splMint, tokenAccounts, customTokens, parsedRecipients, parseVars,
                  status, prevStatus, statusMsg, txSigs, ataExists, pc, handler,
                  validRecipients, selectedTokens, tokenIdx, buildVars, signatures,
                  totalAtas, i, jobs, rejected, externalCreates, badOutcomes, watchVars,
                  sponsorVars, amountVars, sweepVars, utilVars>>

InitClose ==
    /\ Mounted
    /\ WatchIdle
    /\ SponsorIdle
    /\ AmountIdle
    /\ SweepIdle
    /\ UtilIdle
    /\ cPc = "parse"
    /\ cKeyValid \in BOOLEAN
    /\ cOwned \in AccountLists
    /\ allAccounts = <<>>
    /\ cI = 0
    /\ totalClosed = 0
    /\ closeSignatures = <<>>
    /\ cBatches = <<>>
    /\ cResult = NoProcessResult
    /\ logs = <<>>

\* addLog 550-553: the last 50 lines are kept and the new one added
AddLog(lines, msg) ==
    (IF Len(lines) > 50 THEN SubSeq(lines, Len(lines) - 49, Len(lines)) ELSE lines) \o <<msg>>

\* 643-648, and the catch block 701-712 for a key that does not parse
CloseParse ==
    /\ cPc = "parse"
    /\ IF cKeyValid
       THEN /\ cPc' = "accounts"
            /\ logs' = AddLog(logs, <<"Wallet">>)
            /\ UNCHANGED cResult
       ELSE /\ cPc' = "returned"
            /\ logs' = AddLog(logs, <<"Wallet failed">>)
            /\ cResult' = ProcessResult(WalletNo(1), "error", 0, <<"Invalid private key">>, <<>>)
    /\ UNCHANGED <<cKeyValid, cOwned, allAccounts, cI, totalClosed, closeSignatures,
                   cBatches, notCloseVars>>

\* 650-669: getAllTokenAccounts answers
CloseAccounts ==
    /\ cPc = "accounts"
    /\ allAccounts' = cOwned
    /\ IF Len(cOwned) = 0
       THEN /\ cPc' = "returned"
            /\ logs' = AddLog(logs, <<"No accounts found">>)
            /\ cResult' = ProcessResult(Address(1), "no_accounts", 0, <<"No token accounts">>,
                                        <<>>)
       ELSE /\ cPc' = "batch"
            /\ logs' = AddLog(logs, <<"Found", Len(cOwned)>>)
            /\ UNCHANGED cResult
    /\ cI' = 0
    /\ totalClosed' = 0
    /\ closeSignatures' = <<>>
    /\ UNCHANGED <<cKeyValid, cOwned, cBatches, notCloseVars>>

\* 671-700: one turn of the batch loop, closeAccountsBatch (582-634) included;
\* after the last batch the result is returned
CloseBatch ==
    /\ cPc = "batch"
    /\ \E ok \in BOOLEAN :
           LET last == IF cI + BATCH_SIZE < Len(allAccounts) THEN cI + BATCH_SIZE
                                                            ELSE Len(allAccounts)
               batch == SubSeq(allAccounts, cI + 1, last)
               number == cI \div BATCH_SIZE + 1
               result == BatchReturn(ok, batch, SignatureOf(number))
               counted == Counted(result, batch)
               closed == IF counted THEN totalClosed + result.success ELSE totalClosed
               sigs == IF counted THEN Append(closeSignatures, result.signature)
                                  ELSE closeSignatures
               logged == AddLog(AddLog(logs, <<"Closing batch", number>>),
                                IF counted THEN <<"Closed", result.success>>
                                ELSE <<"Batch error">>)
           IN  /\ cBatches' = Append(cBatches, [tx |-> CloseTransaction(batch),
                                                size |-> Len(batch), ok |-> ok])
               /\ totalClosed' = closed
               /\ closeSignatures' = sigs
               /\ IF cI + BATCH_SIZE < Len(allAccounts)
                  THEN /\ cI' = cI + BATCH_SIZE
                       /\ cPc' = "batch"
                       /\ logs' = logged
                       /\ UNCHANGED cResult
                  ELSE /\ cI' = cI + BATCH_SIZE
                       /\ cPc' = "returned"
                       /\ logs' = AddLog(logged, <<"Total reclaimed">>)
                       /\ cResult' = ProcessResult(Address(1), WalletStatus(closed), closed,
                                                   <<"Closed", closed, Len(allAccounts)>>, sigs)
    /\ UNCHANGED <<cKeyValid, cOwned, allAccounts, notCloseVars>>

NextClose ==
    \/ CloseParse
    \/ CloseAccounts
    \/ CloseBatch

SpecClose == InitClose /\ [][NextClose]_vars

-----------------------------------------------------------------------------
(* The utility builder: buildMultiSendTransaction of utils/solanaUtils.ts       *)
(* (71-155), one call, one step per answer of the connection. The mint is a     *)
(* valid address and the amounts are numerals.                                  *)

UTIL_MAX_TX_SIZE_SOL == 12
UTIL_MAX_TX_SIZE_SPL == 10
\* decimals = 9, the default of the fifth argument
UtilDecimals == 9
\* the most recipients a call is given
MaxUtilRecipients == 13

\* 84
UtilChunkSize(m) == IF m = SOL_MINT THEN UTIL_MAX_TX_SIZE_SOL ELSE UTIL_MAX_TX_SIZE_SPL

\* recipient k of the call; `valid` is whether new PublicKey accepts the address
UtilRecipient(k, valid) == [address |-> Address(k), amount |-> Amount(<<1>>, <<5>>), valid |-> valid]

\* every address valid, or the second or the last one not
UtilRecipientLists ==
    {[k \in 1..n |-> UtilRecipient(k, k # bad)] : n \in 0..MaxUtilRecipients, bad \in {0, 2}}
    \cup {[k \in 1..n |-> UtilRecipient(k, k # n)] : n \in 1..MaxUtilRecipients}

\* which receiving accounts are missing: none, all, every second one
MissingSets == {{}, 1..MaxUtilRecipients, {k \in 1..MaxUtilRecipients : k % 2 = 1}}

\* BigInt(Math.round(parseFloat(recipient.amount) * Math.pow(10, decimals))), 103
amountBig(recipient) ==
    BitsValue(MathRound(TimesPow10(parseFloat(recipient.amount), UtilDecimals)))

\* 107-113
UtilTransfer(recipient) ==
    [kind |-> "transfer", from |-> Sender, to |-> recipient.address,
     amount |-> amountBig(recipient)]

\* 125-134
UtilCreate(m, recipient) ==
    [kind |-> "createAta", payer |-> Sender, ata |-> Ata(m, recipient.address),
     owner |-> recipient.address, mint |-> m]

\* 138-147
UtilTransferChecked(m, recipient) ==
    [kind |-> "transferChecked", from |-> Ata(m, Sender), mint |-> m,
     to |-> Ata(m, recipient.address), owner |-> Sender,
     amount |-> amountBig(recipient), decimals |-> UtilDecimals]

\* Mutant of Creates: the account is created whenever it is missing
CreatesWhenMissing(found, auto) == ~found

\* !ataExists && autoCreateATA, 124
Creates(found, auto) == ~found /\ auto

\* 121-147: the instructions a token recipient adds
TokenInstrs(m, recipient, found, auto) ==
    (IF Creates(found, auto) THEN <<UtilCreate(m, recipient)>> ELSE <<>>)
        \o <<UtilTransferChecked(m, recipient)>>

UtilChunks == Chunk(uRecipients, UtilChunkSize(tokenMint))

notUtilVars == <<tokenType, splMint, tokenAccounts, customTokens, parsedRecipients, parseVars,
                 status, prevStatus, statusMsg, txSigs, ataExists, pc, handler,
                 validRecipients, selectedTokens, tokenIdx, buildVars, signatures,
                 totalAtas, i, jobs, rejected, externalCreates, badOutcomes, watchVars,
                 sponsorVars, amountVars, sweepVars, closeVars>>

InitUtil ==
    /\ Mounted
    /\ WatchIdle
    /\ SponsorIdle
    /\ AmountIdle
    /\ SweepIdle
    /\ CloseIdle
    /\ uPc = "called"
    /\ uRecipients \in UtilRecipientLists
    /\ tokenMint \in {SOL_MINT, "M1"}
    /\ autoCreateATA \in BOOLEAN
    /\ uMissing \in MissingSets
    /\ uC = 0
    /\ uR = 0
    /\ transaction = NoTransaction
    /\ transactions = <<>>

\* 79-93: the chunks are cut; without recipients the empty list is returned
UtilCall ==
    /\ uPc = "called"
    /\ IF UtilChunks = <<>>
       THEN uPc' = "returned" /\ uC' = 0
       ELSE uPc' = "blockhash" /\ uC' = 1
    /\ UNCHANGED <<uRecipients, tokenMint, autoCreateATA, uMissing, uR, transaction,
                   transactions, notUtilVars>>

\* 151 and the next turn of the loop of 93, or 154
UtilPush(tx) ==
    /\ transactions' = Append(transactions, tx)
    /\ transaction' = tx
    /\ uR' = 0
    /\ IF uC < Len(UtilChunks)
       THEN uPc' = "blockhash" /\ uC' = uC + 1
       ELSE uPc' = "returned" /\ UNCHANGED uC

\* an exception leaves the function
UtilThrows(tx, r) ==
    /\ uPc' = "threw"
    /\ transaction' = tx
    /\ uR' = r
    /\ UNCHANGED <<uC, transactions>>

\* 94-113: getLatestBlockhash answers; a native chunk is then built whole, a
\* token chunk up to the first getAccountInfo
UtilBlockhash ==
    /\ uPc = "blockhash"
    /\ \E answers \in BOOLEAN :
           LET chunk == UtilChunks[uC]
               fresh == [feePayer |-> Sender, recentBlockhash |-> uC, instructions |-> <<>>]
               invalid == {k \in 1..Len(chunk) : ~chunk[k].valid}
               firstBad == CHOOSE k \in invalid : \A h \in invalid : k <= h
           IN  IF ~answers THEN UtilThrows(transaction, 0)
               ELSE IF tokenMint = SOL_MINT
               THEN IF invalid = {}
                    THEN UtilPush([fresh EXCEPT !.instructions =
                                      [k \in 1..Len(chunk) |-> UtilTransfer(chunk[k])]])
                    ELSE UtilThrows([fresh EXCEPT !.instructions =
                                        [k \in 1..(firstBad - 1) |-> UtilTransfer(chunk[k])]],
                                    firstBad)
               ELSE IF chunk[1].valid
                    THEN /\ uPc' = "accountInfo"
                         /\ uR' = 1
                         /\ transaction' = fresh
                         /\ UNCHANGED <<uC, transactions>>
                    ELSE UtilThrows(fresh, 1)
    /\ UNCHANGED <<uRecipients, tokenMint, autoCreateATA, uMissing, notUtilVars>>

\* 121-151: getAccountInfo answers for the recipient's account; its
\* instructions are added and the next recipient's address is read
UtilAccountInfo ==
    /\ uPc = "accountInfo"
    /\ \E answers \in BOOLEAN :
           LET chunk == UtilChunks[uC]
               number == (uC - 1) * UtilChunkSize(tokenMint) + uR
               found == number \notin uMissing
               tx == [transaction EXCEPT !.instructions =
                         @ \o TokenInstrs(tokenMint, chunk[uR], found, autoCreateATA)]
           IN  IF ~answers THEN UtilThrows(transaction, uR)
               ELSE IF uR = Len(chunk) THEN UtilPush(tx)
               ELSE IF chunk[uR + 1].valid
                    THEN /\ uR' = uR + 1
                         /\ transaction' = tx
                         /\ UNCHANGED <<uPc, uC, transactions>>
                    ELSE UtilThrows(tx, uR + 1)
    /\ UNCHANGED <<uRecipients, tokenMint, autoCreateATA, uMissing, notUtilVars>>

NextUtil ==
    \/ UtilCall
    \/ UtilBlockhash
    \/ UtilAccountInfo

SpecUtil == InitUtil /\ [][NextUtil]_vars

-----------------------------------------------------------------------------
(* Helpers of the properties *)

RECURSIVE Flatten(_)
Flatten(seqs) == IF Len(seqs) = 0 THEN <<>> ELSE Head(seqs) \o Flatten(Tail(seqs))

CeilDiv(n, b) == (n + b - 1) \div b

Count(seq, v) == Cardinality({k \in 1..Len(seq) : seq[k] = v})

SubmissionOrder == [k \in 1..Len(jobs) |-> k]

\* the positions of buildRecipients the resolver found no account for, in order
MissingPositions ==
    SelectSeq([k \in 1..Len(classified) |-> k], LAMBDA k : classified[k] = "toCreate")

ExpectedWork ==
    [j \in 1..Len(MissingPositions) |->
        [recipient |-> buildRecipients[MissingPositions[j]].address,
         ata |-> Ata(mint, buildRecipients[MissingPositions[j]].address),
         mint |-> mint]]

CreationInstrs == {<<b, j>> : b \in 1..Len(ataTxs), j \in 1..ataChunkSize}

-----------------------------------------------------------------------------
(* The claims *)

\* C1: the session is in SUCCESS only if the confirmation wait of every
\* transaction submitted in the run returned Confirmed.
C1_SuccessOnlyIfAllConfirmed ==
    status = "SUCCESS" =>
        \A k \in 1..Len(jobs) : jobs[k].confirmation = "CONFIRMED"

\* C2 (as claimed): once a transfer batch of a fungible asset with creation work
\* is built, every creation batch of that asset has been submitted and its
\* confirmation awaited.
C2_CreationAwaitedBeforeTransferBuilt ==
    (mint # SOL_MINT /\ Len(atasToCreate) > 0 /\ Len(transferTxs) > 0) =>
        \A b \in 1..Len(ataTxs) :
            \E c \in 1..Len(jobs) :
                /\ jobs[c].kind = "ata" /\ jobs[c].asset = mint /\ jobs[c].batch = b
                /\ jobs[c].waits >= 1

\* C2 (amended): before a transfer batch of an asset is submitted, every creation
\* batch of that asset has been submitted and its confirmation wait has returned;
\* the transfer transactions themselves are built together with the creation
\* transactions, before anything is submitted.
C2_CreationAwaitedBeforeTransferSubmitted ==
    \A t \in 1..Len(jobs) :
        jobs[t].kind = "transfer" =>
            /\ \A c \in 1..Len(jobs) :
                   (jobs[c].kind = "ata" /\ jobs[c].asset = jobs[t].asset) =>
                       c < t /\ jobs[c].waits >= 1 /\ jobs[c].confirmation # "PENDING"
            /\ jobs[t].asset = mint =>
                   \A b \in 1..Len(ataTxs) :
                       \E c \in 1..(t - 1) :
                           /\ jobs[c].kind = "ata" /\ jobs[c].asset = mint
                           /\ jobs[c].batch = b /\ jobs[c].tx = ataTxs[b]

C2_Witness ==
    \E c, t \in 1..Len(jobs) :
        /\ jobs[c].kind = "ata" /\ jobs[t].kind = "transfer"
        /\ jobs[c].asset = jobs[t].asset
        /\ Len(ataTxs) >= 2

\* C3: in ERROR after at least one submission, the session's signature list
\* holds every signature accumulated in the run.
C3_ErrorKeepsSignatures ==
    (status = "ERROR" /\ Len(jobs) >= 1) => txSigs = SubmissionOrder

\* The array a run pushes its signatures to is, at every moment of the run, the
\* submitted transactions in submission order, each exactly once.
AccumulatedInSubmissionOrder ==
    /\ signatures = SubmissionOrder
    /\ \A a, b \in 1..Len(txSigs) : a < b => txSigs[a] < txSigs[b]
    /\ status = "SUCCESS" => txSigs = SubmissionOrder

\* C4: when a run is over, the session's signature list is in submission order
\* and every transaction submitted in the run appears in it exactly once.
C4_SessionListInSubmissionOrder ==
    (pc = "idle" /\ handler # "none") =>
        /\ \A a, b \in 1..Len(txSigs) : a < b => txSigs[a] < txSigs[b]
        /\ \A k \in 1..Len(jobs) :
               Cardinality({a \in 1..Len(txSigs) : txSigs[a] = k}) = 1

\* C5: once a submission is rejected (by the sponsor or by the network) the
\* session is in ERROR, nothing more is submitted in the run, and the rejected
\* batch is not among the submitted ones.
C5_RejectionEndsRun ==
    rejected # <<>> =>
        /\ status = "ERROR"
        /\ Len(jobs) = rejected[1].at
        /\ \A k \in 1..Len(jobs) :
               ~(/\ jobs[k].kind = rejected[1].kind
                 /\ jobs[k].asset = rejected[1].asset
                 /\ jobs[k].batch = rejected[1].batch)

C5_Witness ==
    /\ rejected # <<>>
    /\ rejected[1].at >= 1
    /\ rejected[1].kind = "ata"

\* C6: a run in which the confirmation wait of a transfer batch timed out ends
\* with the confirmation-timeout message, not with SUCCESS.
C6_TimeoutReported ==
    (pc = "idle" /\ \E k \in 1..Len(jobs) :
                        jobs[k].kind = "transfer" /\ jobs[k].confirmation = "TIMED_OUT") =>
        /\ status # "SUCCESS"
        /\ statusMsg.text = "Transaction confirmation timeout"

\* C7: the recipients handed to the builder are split into ceil(N/B) chunks, each
\* with 1..B recipients, whose concatenation is the list itself; B is 8 for a
\* native send and 5 for a token send; the same holds of the chunking loop for
\* every size B >= 1 (12 and 10, the sizes of utils/solanaUtils.ts, included).
C7_ChunkPartition ==
    LET B == IF tokenType = "SOL" THEN MAX_TX_SIZE_SOL ELSE MAX_TX_SIZE_SPL
        N == Len(buildRecipients)
    IN  /\ Len(chunks) = CeilDiv(N, B)
        /\ \A k \in 1..Len(chunks) : Len(chunks[k]) >= 1 /\ Len(chunks[k]) <= B
        /\ Flatten(chunks) = buildRecipients
        /\ (handler = "single" /\ N > 0) => buildRecipients = validRecipients
        /\ \A size \in 1..(MaxRecipients + 3) :
               LET cs == Chunk(buildRecipients, size)
               IN  /\ Len(cs) = CeilDiv(N, size)
                   /\ \A k \in 1..Len(cs) : Len(cs[k]) >= 1 /\ Len(cs[k]) <= size
                   /\ Flatten(cs) = buildRecipients

C7_Witness ==
    /\ tokenType = "SOL"
    /\ Len(chunks) = 2
    /\ Len(chunks[2]) < MAX_TX_SIZE_SOL
    /\ Len(transferTxs) = 2

\* C8: for a fungible asset the resolver puts every recipient it has looked at in
\* exactly one of existing / toCreate: the two counts add up to the recipients
\* resolved (all of them once resolution is over) and the creation work is
\* exactly the recipients found missing, in order; for a native asset nothing is
\* looked up, both counts are 0 and there is no creation batch; as long as no
\* other actor creates an account meanwhile, two entries with one address are in
\* the same class.
C8_ResolutionPartition ==
    /\ ataStats.existing = Count(classified, "existing")
    /\ ataStats.toCreate = Count(classified, "toCreate")
    /\ ataStats.existing + ataStats.toCreate = Len(classified)
    /\ atasToCreate = ExpectedWork
    /\ (mint # SOL_MINT /\ pc \in {"resolve", "build"}) => Len(classified) = resolveIdx - 1
    /\ pc \in {"build", "sendAta", "confirmAta", "sendTransfer", "confirmTransfer"} =>
           IF mint = SOL_MINT
           THEN classified = <<>> /\ ataTxs = <<>>
           ELSE ataStats.existing + ataStats.toCreate = Len(buildRecipients)
    /\ externalCreates = 0 =>
           \A a, b \in 1..Len(classified) :
               buildRecipients[a].address = buildRecipients[b].address =>
                   classified[a] = classified[b]

C8_Witness ==
    /\ pc = "sendAta"
    /\ ataStats.existing >= 1
    /\ ataStats.toCreate >= 2

\* C9: no receiving account is the target of two creation instructions of the
\* creation batches built for one asset.
C9_NoDuplicateCreation ==
    \A x, y \in CreationInstrs :
        (/\ x # y
         /\ x[2] <= Len(ataTxs[x[1]])
         /\ y[2] <= Len(ataTxs[y[1]])) =>
            ataTxs[x[1]][x[2]].ata # ataTxs[y[1]][y[2]].ata

\* C10 (as claimed): every change of phase is an edge of
\* IDLE -> VALIDATING -> SENDING -> {SUCCESS, ERROR}, a terminal phase being left
\* only for VALIDATING.
ClaimedEdges ==
    {<<"IDLE", "VALIDATING">>, <<"VALIDATING", "SENDING">>,
     <<"SENDING", "SUCCESS">>, <<"SENDING", "ERROR">>,
     <<"SUCCESS", "VALIDATING">>, <<"ERROR", "VALIDATING">>}

C10_PhaseEdgesAsClaimed ==
    [][status' # status => <<status, status'>> \in ClaimedEdges]_vars

\* C10 (amended): as claimed, except that ERROR is also entered from VALIDATING,
\* when validation fails; SUCCESS is entered only from SENDING.
C10_PhaseEdges ==
    [][status' # status =>
           <<status, status'>> \in ClaimedEdges \cup {<<"VALIDATING", "ERROR">>}]_vars

C10_Witness ==
    /\ status = "ERROR"
    /\ prevStatus = "VALIDATING"
    /\ jobs = <<>>

\* a parsed recipient with a valid address / with a valid address and an amount
\* of its own that parses positive
SomeValidAddress ==
    \E k \in 1..Len(parsedRecipients) : isValidAddress(parsedRecipients[k].address)

SomeValidPositive ==
    \E k \in 1..Len(parsedRecipients) :
        /\ isValidAddress(parsedRecipients[k].address)
        /\ ParsesPositive(parsedRecipients[k].amount)

SomeAssetPositive ==
    \E k \in 1..Len(tokenAccounts \o customTokens) :
        LET t == (tokenAccounts \o customTokens)[k]
        IN  t.selected /\ ParsesPositive(t.amountToSend)

NothingBuiltOrSubmitted ==
    jobs = <<>> /\ signatures = <<>> /\ ataTxs = <<>> /\ transferTxs = <<>>

\* C11 (as claimed): past VALIDATING in a run, some recipient has a valid address
\* and a positive amount of its own, the mint of a single-token send is valid and
\* a multi-asset send has a selected asset with a positive amount; otherwise
\* nothing is built or submitted.
C11_GuardAsClaimed ==
    LET guard == /\ SomeValidPositive
                 /\ tokenType = "SPL" => isValidAddress(splMint)
                 /\ tokenType = "MULTI" => SomeAssetPositive
    IN  /\ status \in {"SENDING", "SUCCESS"} => guard
        /\ ~guard => NothingBuiltOrSubmitted

\* C11 (amended): the recipient's own amount counts in a single-asset send only;
\* in a multi-asset send a valid address is enough, the amount sent being the
\* selected asset's.
C11_GuardToSending ==
    LET guard == IF tokenType = "MULTI"
                 THEN SomeValidAddress /\ SomeAssetPositive
                 ELSE /\ SomeValidPositive
                      /\ tokenType = "SPL" => isValidAddress(splMint)
    IN  /\ status \in {"SENDING", "SUCCESS"} => guard
        /\ ~guard => NothingBuiltOrSubmitted
        /\ (~guard /\ handler # "none" /\ pc = "idle") =>
               status = "ERROR" /\ prevStatus = "VALIDATING"
        /\ \A b \in 1..Len(transferTxs) : \A k \in 1..Len(transferTxs[b]) :
               ParsesPositive(transferTxs[b][k].amount)

C11_Witness ==
    /\ tokenType = "MULTI"
    /\ ~SomeValidPositive
    /\ status = "SUCCESS"
    /\ jobs # <<>>

\* C12: the list a parse stores is the first min(n, 100) recipients of the text,
\* in the order of the text; the truncation warning is set when the text holds
\* more than 100 recipients and cleared otherwise; the stored list never has more
\* than 100 entries.
C12_ParseCapsAtLimit ==
    /\ [](Len(parsedRecipients) <= MAX_BATCH_SIZE)
    /\ [][rawText' # rawText =>
            \E tokens \in {Split(rawText')} :
            LET n == Len(tokens)
                found == IF mode = "SAME" THEN n ELSE (n + 1) \div 2
                kept == IF found > MAX_BATCH_SIZE THEN MAX_BATCH_SIZE ELSE found
            IN  /\ Len(parsedRecipients') = kept
                /\ \A k \in 1..kept :
                       parsedRecipients'[k].address =
                           IF mode = "SAME" THEN tokens[k] ELSE tokens[2 * k - 1]
                /\ \A k \in 1..kept :
                       parsedRecipients'[k].amount =
                           IF mode = "SAME"
                           THEN (IF sameAmount = "" THEN "0" ELSE sameAmount)
                           ELSE (IF 2 * k <= n THEN tokens[2 * k] ELSE "0")
                /\ (found > MAX_BATCH_SIZE) <=> (statusMsg' = LimitMsg)
                /\ (found <= MAX_BATCH_SIZE) <=> (statusMsg' = NoMsg)]_vars

C12_Witness ==
    /\ mode = "DIFF"
    /\ Len(Split(rawText)) > 2 * MAX_BATCH_SIZE
    /\ Len(parsedRecipients) = MAX_BATCH_SIZE
    /\ parsedRecipients[MAX_BATCH_SIZE].address = Split(rawText)[2 * MAX_BATCH_SIZE - 1]
    /\ statusMsg = LimitMsg

JobsOfKind(kind) == {c \in 1..Len(jobs) : jobs[c].kind = kind}

\* C13: a single-asset run that reports SUCCESS with N valid recipients, of which
\* k were found without a receiving account (none for a native send), submitted
\* ceil(k/2) creation batches, then ceil(N/B) transfer batches, and its signature
\* list has one entry for each, creation signatures first.
C13_BatchCountsOnSuccess ==
    (status = "SUCCESS" /\ handler = "single") =>
        LET N == Len(validRecipients)
            B == IF tokenType = "SOL" THEN MAX_TX_SIZE_SOL ELSE MAX_TX_SIZE_SPL
            k == Count(classified, "toCreate")
        IN  /\ tokenType = "SOL" => k = 0
            /\ (tokenType = "SPL" /\ externalCreates = 0) =>
                   k = Cardinality({p \in 1..N :
                           Ata(splMint, validRecipients[p].address) \notin ataExists})
            /\ Cardinality(JobsOfKind("ata")) = CeilDiv(k, 2)
            /\ Cardinality(JobsOfKind("transfer")) = CeilDiv(N, B)
            /\ Len(txSigs) = CeilDiv(k, 2) + CeilDiv(N, B)
            /\ txSigs = SubmissionOrder
            /\ \A c \in JobsOfKind("ata") : \A t \in JobsOfKind("transfer") : c < t

C13_Witness ==
    /\ status = "SUCCESS" /\ tokenType = "SPL"
    /\ Len(validRecipients) = 6
    /\ Count(classified, "toCreate") = 4
    /\ Len(txSigs) = 4

\* C14: while a run is sending, at most one submitted transaction has a
\* confirmation wait that has not returned yet.
C14_OneInFlight ==
    status = "SENDING" =>
        Cardinality({c \in 1..Len(jobs) : jobs[c].waits = 0}) <= 1

\* Every wait returns: each iteration that does not return sleeps a whole
\* interval, and no poll is started once the deadline has passed.
WaitTerminates == []<>(wPc = "returned")

WaitBoundedByDeadline ==
    /\ wPc = "polling" => now - wStart < Timeout(watcher)
    /\ wPc # "off" =>
           now - wStart < Timeout(watcher) + MaxLatencyTicks * TickMs + Interval(watcher)

\* C15: the value a confirmation wait returns tells which of Confirmed, Failed
\* and TimedOut ended it: two calls of one wait that return the same value ended
\* the same way.
C15_OutcomesDistinguishable ==
    \A p, q \in returnsSeen :
        (p[1] = q[1] /\ p[2] = q[2]) => p[3] = q[3]

\* C16: before the deadline, an answer that is empty, null or an RPC exception
\* never ends the wait: the wait sleeps one poll interval, looks at the clock and
\* polls again; only an answer that carries an error makes a wait return Failed.
C16_NotVisibleStaysPending ==
    /\ [][(wPc = "polling" /\ wPc' # "polling"
              /\ wLast'.kind \in {"empty", "null", "throw"}) =>
             (wPc' = "sleeping" /\ wOutcome' = "PENDING" /\ wResult' = NoResult)]_vars
    /\ [][wPc = "sleeping" =>
             (wPc' = "check" /\ now' = now + Interval(watcher))]_vars
    /\ [][(wPc = "check" /\ now - wStart < Timeout(watcher)) => wPc' = "polling"]_vars
    /\ [](wOutcome = "FAILED" => (wLast.kind = "status" /\ wLast.err))

C16_Witness ==
    /\ watcher = "App"
    /\ wPc = "polling"
    /\ wLast.kind \in {"empty", "null", "throw"}
    /\ now - wStart >= 2 * pollIntervalMs

Rank(level) == CHOOSE k \in 1..Len(Levels) : Levels[k] = level

\* C17: an error-free status whose level is the requested one or a stronger one
\* ends the wait with Confirmed on that poll.
C17_StrongerLevelConfirms ==
    (wLast.kind = "status" /\ ~wLast.err /\ Rank(wLast.level) >= Rank(wCommitment)) =>
        (wPc = "returned" /\ wOutcome = "CONFIRMED")

\* C18: every call of the sponsorship request returns, none throws; a rejected
\* fetch, an unparsable or null body, a body with an error object and a body
\* without result.serializedTransaction each return success = false with a
\* non-empty reason; success = true comes only with the sponsored transaction of
\* the body.
C18_SponsorshipNeverThrows ==
    /\ sPc # "threw"
    /\ sPc = "returned" =>
           LET d == sReply.data
               unusable == \/ sReply.fetchThrows \/ sReply.jsonThrows \/ sReply.nullBody
                           \/ d.error
                           \/ ~d.result
                           \/ d.serializedTransaction \in {Absent, ""}
           IN  /\ unusable => /\ ~sResult.success
                               /\ sResult.error \notin {Absent, ""}
                               /\ sResult.signedTransaction = Absent
               /\ sResult.success => /\ ~unusable
                                      /\ sResult.signedTransaction = d.serializedTransaction
                                      /\ sResult.signedTransaction = Sponsored(sRequest)
               /\ ~unusable => sResult.success

C18_Witness ==
    /\ sPc = "returned"
    /\ sReply.jsonThrows /\ sReply.message = ""
    /\ ~sResult.success
    /\ sResult.error = "Failed to request fee payer from Alchemy"

\* round-half-up(amount * 10^decimals), computed on the decimal string itself
RoundHalfUp(amount, decimals) ==
    LET n == FromDigits(amount.int \o amount.frac)
        f == Len(amount.frac)
    IN  IF decimals >= f
        THEN MulPow10(n, decimals - f)
        ELSE DivMod(MulSmall(DivPow10(MulSmall(n, 2, 0), f - decimals).q, 1, 1), 2).q

\* the two examples of the amount conversion: "1.5" at 9 decimals gives
\* 1500000000 and "0.000000001" at 9 decimals gives 1
AmountExamples ==
    (aPc = "done" /\ aDecimals = 9) =>
        /\ aAmount = Amount(<<1>>, <<5>>) => ToDigits(aUnits) = <<1, 5, 0, 0, 0, 0, 0, 0, 0, 0>>
        /\ aAmount = Amount(<<0>>, <<0, 0, 0, 0, 0, 0, 0, 0, 1>>) => ToDigits(aUnits) = <<1>>

\* C19: the smallest-unit amount of a transfer instruction equals
\* round-half-up(amount * 10^decimals) of the recipient's decimal string; in
\* particular it is exact when the string has no more than `decimals` digits
\* after the point.
C19_UnitsAreRoundHalfUp ==
    aPc = "done" => aUnits = RoundHalfUp(aAmount, aDecimals)

\* C20: when another actor creates a receiving account between the existence check
\* that found it missing and the submission of the creation batch, the run takes
\* the creation as done: the session does not end in ERROR on that account.
C20_ExternalCreationSatisfied ==
    ~(status = "ERROR" /\ externalCreates > 0 /\ statusMsg.reason = AccountInUse)

\* C21: in a multi-asset run, a network failure of the existence check of asset k
\* aborts asset k only: the run goes on to the assets after k, and the batches
\* confirmed for the assets before k stay reported in the session's list.
C21_ResolveFailureAbortsAssetOnly ==
    (/\ handler = "multi" /\ pc = "idle" /\ status = "ERROR"
     /\ statusMsg.reason = "failed to get info about account") =>
        /\ tokenIdx = Len(selectedTokens)
        /\ \A k \in 1..Len(jobs) :
               jobs[k].confirmation = "CONFIRMED" => \E n \in 1..Len(txSigs) : txSigs[n] = k

\* the wallet an instruction pays or creates the account of
PaidWallet(instr) ==
    IF instr.kind = "transfer" THEN instr.to
    ELSE IF instr.kind = "transferChecked" THEN instr.to[1]
    ELSE instr.owner

AddressesOf(rs) == [k \in 1..Len(rs) |-> rs[k].address]

\* what filtering does to the list, given the recipients it keeps
FilteringKeeps(kept) ==
    /\ transferTxs # <<>> =>
           [k \in 1..Len(Flatten(transferTxs)) |-> PaidWallet(Flatten(transferTxs)[k])]
               = AddressesOf(kept)
    /\ \A b \in 1..Len(ataTxs) : \A k \in 1..Len(ataTxs[b]) :
           \E n \in 1..Len(kept) : kept[n].address = PaidWallet(ataTxs[b][k])
    /\ statusMsg.text = "No valid recipients found." =>
           /\ kept = <<>>
           /\ status = "ERROR"
           /\ NothingBuiltOrSubmitted
    /\ (kept = <<>> /\ handler # "none" /\ pc # "validate") =>
           /\ status = "ERROR" /\ prevStatus = "VALIDATING"
           /\ NothingBuiltOrSubmitted

\* C22 (as claimed): recipients with an invalid address or a non-positive amount
\* are in no built batch, the others keep their order, and the run ends in ERROR
\* on the recipients exactly when none is left, nothing being submitted then.
C22_InvalidRemovedAsClaimed ==
    FilteringKeeps(SelectSeq(parsedRecipients,
                             LAMBDA r : isValidAddress(r.address) /\ ParsesPositive(r.amount)))

\* C22 (amended): the recipient's own amount is looked at in a single-asset send
\* only; a multi-asset send removes the recipients with an invalid address, the
\* amount paid being the asset's.
C22_InvalidRemoved ==
    FilteringKeeps(SelectSeq(parsedRecipients,
                             LAMBDA r : /\ isValidAddress(r.address)
                                        /\ tokenType # "MULTI" => ParsesPositive(r.amount)))

C22_Witness ==
    /\ status = "SUCCESS"
    /\ transferTxs # <<>>
    /\ Len(Flatten(transferTxs)) >= 2
    /\ \E k \in 1..Len(parsedRecipients) : ~isValidAddress(parsedRecipients[k].address)
    /\ \E k \in 1..Len(parsedRecipients) : /\ isValidAddress(parsedRecipients[k].address)
                                           /\ ~ParsesPositive(parsedRecipients[k].amount)

\* C23: a transfer transaction of an asset is submitted only after every creation
\* batch of that asset was submitted and its confirmation wait returned Confirmed;
\* after a creation batch that ended Failed or TimedOut no transfer of the asset
\* is submitted.
C23_TransferOnlyAfterCreationConfirmed ==
    \A t \in 1..Len(jobs) :
        jobs[t].kind = "transfer" =>
            \A c \in 1..Len(jobs) :
                (jobs[c].kind = "ata" /\ jobs[c].asset = jobs[t].asset) =>
                    c < t /\ jobs[c].confirmation = "CONFIRMED"

\* what a status message says of the step that failed: "ATA batch i failed: ..."
\* names the creation stage and the batch, "Alchemy failed for SYM: ..." the
\* creation stage (only creation batches are sponsored) and the asset
StageNamed(msg) ==
    IF msg.text \in {"ATA batch failed", "Alchemy failed for"} THEN "ata" ELSE ""

BatchNamed(msg) == IF msg.text = "ATA batch failed" THEN msg.a ELSE 0

\* C24: when a run ends in ERROR on a batch during SENDING, the final status
\* message names the stage (creation or transfer), the asset and the batch index
\* of the failing step (in a single-asset send the asset is the one being sent).
C24_ErrorNamesFailingStep ==
    (status = "ERROR" /\ prevStatus = "SENDING" /\ rejected # <<>>) =>
        /\ StageNamed(statusMsg) = rejected[1].kind
        /\ BatchNamed(statusMsg) = rejected[1].batch
        /\ handler = "multi" => statusMsg.asset = SymbolOf(rejected[1].asset)

\* C25: every creation transaction submitted through the sponsorship path carries
\* the sponsor's signature and the signature of the sender, who funds each of its
\* creation instructions.
C25_SponsoredCarriesSenderSignature ==
    \A k \in 1..Len(jobs) :
        (jobs[k].kind = "ata" /\ Sponsor \in jobs[k].signedBy) =>
            \A n \in 1..Len(jobs[k].tx) : jobs[k].tx[n].payer \in jobs[k].signedBy

\* the final message reports a sponsorship request that returned success: false
SponsorFailureReported ==
    \/ statusMsg.text = "Alchemy failed for"
    \/ \E reason \in SponsorErrors : statusMsg.reason = "Alchemy failed: " \o reason

\* C26: a sponsorship request that returns Unavailable for a creation batch does
\* not end the run: the wallet being connected (every run starts with publicKey
\* set), the batch is submitted self-paid and the session does not go to ERROR on
\* the sponsorship failure.
C26_SponsorFailureFallsBack ==
    ~(status = "ERROR" /\ rejected # <<>> /\ SponsorFailureReported)

\* C27: a wait never returns Confirmed on a status that carries an execution
\* error, whatever the level of the status; the wait of the send orchestrator
\* returns Failed, with the error as reason, on the first status that carries one.
C27_ErrorNeverConfirms ==
    /\ [](wOutcome = "CONFIRMED" => (wLast.kind = "status" /\ ~wLast.err))
    /\ [][(wPc = "polling" /\ wPc' # "polling" /\ wLast'.kind = "status" /\ wLast'.err) =>
             /\ wOutcome' # "CONFIRMED"
             /\ wResult'.success # TRUE
             /\ watcher = "App" =>
                    /\ wPc' = "returned"
                    /\ wOutcome' = "FAILED"
                    /\ wResult' = Result(FALSE, "Transaction failed: err")]_vars

C27_Witness ==
    /\ watcher = "App"
    /\ wCommitment = "processed"
    /\ wPc = "returned"
    /\ wOutcome = "FAILED"
    /\ wLast.err /\ wLast.level = "finalized"
    /\ now > 0

\* the tokens of a text, said without the splitting: where a run of characters
\* that are no separators starts, and the runs themselves
RunStarts(text) ==
    {p \in 1..Len(text) : text[p] \notin Separators /\ (p = 1 \/ text[p - 1] \in Separators)}

RECURSIVE Concat(_)
Concat(cs) == IF cs = <<>> THEN "" ELSE Head(cs) \o Concat(Tail(cs))

Runs(text) ==
    [k \in 1..Cardinality(RunStarts(text)) |->
        LET p == CHOOSE q \in RunStarts(text) :
                     Cardinality({r \in RunStarts(text) : r < q}) = k - 1
            e == CHOOSE q \in p..Len(text) :
                     /\ \A r \in p..q : text[r] \notin Separators
                     /\ q = Len(text) \/ text[q + 1] \in Separators
        IN  Concat(SubSeq(text, p, e))]

\* C28: with t the tokens of the text (its runs between newlines, whitespace and
\* commas, none empty) and n their number, a parse in DIFF mode finds ceil(n/2)
\* recipients, the k-th with address t[2k-1] and amount t[2k], or "0" when t[2k-1]
\* is the last token; a parse in SAME mode finds n recipients, the k-th with
\* address t[k]; the list stored is what was found, up to the cap.
C28_ParsePairsTokens ==
    [][rawText' # rawText =>
          \E t \in {Split(rawText')} :
              /\ Len(t) = Cardinality(RunStarts(rawText'))
              /\ Len(rawText') <= MaxShortText => t = Runs(rawText')
              /\ \E found \in {IF mode = "SAME"
                               THEN [k \in 1..Len(t) |->
                                        Recipient(t[k], IF sameAmount = "" THEN "0"
                                                        ELSE sameAmount)]
                               ELSE [k \in 1..CeilDiv(Len(t), 2) |->
                                        Recipient(t[2 * k - 1],
                                                  IF 2 * k <= Len(t) THEN t[2 * k] ELSE "0")]} :
                     parsedRecipients' =
                         SubSeq(found, 1, IF Len(found) > MAX_BATCH_SIZE THEN MAX_BATCH_SIZE
                                          ELSE Len(found))]_vars

C28_Witness ==
    /\ mode = "DIFF"
    /\ Len(Split(rawText)) = MAX_BATCH_SIZE - 1
    /\ Len(parsedRecipients) = MAX_BATCH_SIZE \div 2
    /\ parsedRecipients[MAX_BATCH_SIZE \div 2]
           = Recipient(Split(rawText)[MAX_BATCH_SIZE - 1], "0")

\* the short texts: a run of two characters is one token, separators in a row
\* leave no empty token
C28_WitnessShort ==
    /\ mode = "DIFF"
    /\ rawText = <<"a", "1", ",">>
    /\ parsedRecipients = <<Recipient("a1", "0")>>

TransferBatchesAsBuilt ==
    /\ transferTxs # <<>> =>
           /\ Len(transferTxs) = Len(chunks)
           /\ \A b \in 1..Len(chunks) :
                  /\ Len(transferTxs[b]) = Len(chunks[b])
                  /\ \A n \in 1..Len(chunks[b]) :
                         LET instr == transferTxs[b][n]
                             r == chunks[b][n]
                         IN  /\ instr.amount = r.amount
                             /\ instr.mint = mint
                             /\ IF mint = SOL_MINT
                                THEN /\ instr.kind = "transfer"
                                     /\ instr.from = Sender /\ instr.to = r.address
                                ELSE /\ instr.kind = "transferChecked"
                                     /\ instr.from = Ata(mint, Sender)
                                     /\ instr.to = Ata(mint, r.address)
    /\ \A a, b \in 1..Len(jobs) :
           (/\ a < b /\ jobs[a].kind = "transfer" /\ jobs[b].kind = "transfer"
            /\ jobs[a].asset = jobs[b].asset) =>
               jobs[a].batch < jobs[b].batch
    /\ \A a \in 1..Len(jobs) :
           (jobs[a].kind = "transfer" /\ jobs[a].asset = mint) =>
               jobs[a].tx = transferTxs[jobs[a].batch]

\* C30: the i-th instruction of the transfer transaction of a batch pays the i-th
\* recipient of the batch that recipient's own amount: the amount the instruction
\* carries is the recipient's amount in smallest units, whenever the amount has
\* no more digits after the point than the asset has decimals.
C30_InstructionPaysOwnAmount ==
    (aPc = "done" /\ Len(aAmount.frac) <= aDecimals) =>
        aUnits = MulPow10(FromDigits(aAmount.int \o aAmount.frac),
                          aDecimals - Len(aAmount.frac))

\* the sweeps of the group in progress that have returned
ReturnedSweeps == {j \in 1..Len(sweeps) : sweeps[j].pc = "returned"}

\* C31: a sweep whose transaction was seen with an on-chain execution error is
\* never reported with status 'timeout'; 'timeout' is reported only when the
\* deadline of the confirmation wait passed with no terminal status seen.
C31_TimeoutOnlyOnDeadline ==
    \A j \in ReturnedSweeps :
        sweeps[j].result.status = "timeout" => sweeps[j].observed = "TIMED_OUT"

\* every result there is: those stored and those the sweeps in flight returned
SweepResults ==
    {allResults[k] : k \in 1..Len(allResults)}
    \cup {results[k] : k \in 1..Len(results)}
    \cup {sweeps[j].result : j \in ReturnedSweeps}

\* C35: every sweep result is consistent: 'success' only after the confirmation
\* wait returned true, amountSent > 0 only with 'success', a signature only with
\* 'success' or 'timeout'; a call of the RPC that throws yields 'error' with no
\* signature.
C35_SweepResultConsistent ==
    /\ \A r \in SweepResults :
           /\ r.status \in {"success", "error", "insufficient", "timeout"}
           /\ r.amountSent.m # <<>> => r.status = "success"
           /\ r.signature # NoSignature => r.status \in {"success", "timeout"}
    /\ \A j \in ReturnedSweeps :
           /\ sweeps[j].result.status = "success" =>
                  /\ sweeps[j].observed = "CONFIRMED"
                  /\ Returned("Max", sweeps[j].observed).success
           /\ swKeys[sweeps[j].key].throws # "none" =>
                  /\ sweeps[j].result.status = "error"
                  /\ sweeps[j].result.signature = NoSignature

C35_Witness ==
    /\ swPc = "done"
    /\ \E k \in 1..Len(results) :
           /\ results[k].status = "success"
           /\ results[k].amountSent.m # <<>>
           /\ results[k].signature # NoSignature

\* the reserve in lamports: 0.002 * 10^9, computed on the decimal string (the
\* number fits one limb)
ReserveExact == RoundHalfUp(Amount(<<0>>, <<0, 0, 2>>), LamportsPerSolDigits)[1]

\* C36: a transfer is built and submitted for a wallet only when its balance
\* exceeds the reserve, and it carries balance - reserve lamports, a positive
\* number; a wallet whose balance is at most the reserve yields 'insufficient'
\* and nothing is built or submitted for it.
C36_SweepLeavesReserve ==
    \A j \in 1..Len(sweeps) :
        LET balance == swKeys[sweeps[j].key].balance
            built == sweeps[j].lamports # 0 \/ sweeps[j].signature # NoSignature
                     \/ sweeps[j].pc \in {"getLatestBlockhash", "sendRawTransaction",
                                           "confirmTransaction"}
        IN  /\ built =>
                   /\ sweeps[j].lamports > 0
                   /\ balance > ReserveExact
                   /\ sweeps[j].lamports = balance - ReserveExact
            /\ (sweeps[j].pc = "returned" /\ swKeys[sweeps[j].key].throws # "getBalance"
                    /\ balance <= ReserveExact) =>
                   /\ sweeps[j].result.status = "insufficient"
                   /\ ~built

C36_Witness ==
    \E j \in 1..Len(sweeps) :
        /\ sweeps[j].signature # NoSignature
        /\ sweeps[j].lamports = 1

\* C37: wallets are swept in consecutive groups of at most 10; at most 10 sweeps
\* are in flight; a sweep of the next group starts only when every sweep of the
\* group before has returned; at the end the result list holds exactly one
\* result per configured key.
C37_GroupsOfTen ==
    /\ [](/\ Len(sweeps) <= PARALLEL_WALLETS
          /\ swPc = "sweeping" =>
                 \A j \in 1..Len(sweeps) :
                     sweeps[j].key > swI /\ sweeps[j].key <= swI + PARALLEL_WALLETS
          /\ swPc = "done" =>
                 /\ Len(results) = Len(swKeys)
                 /\ \A k \in 1..Len(swKeys) :
                        Cardinality({r \in 1..Len(results) :
                            results[r].wallet = IF swKeys[k].valid THEN Address(k)
                                                                  ELSE WalletNo(k)}) = 1)
    /\ [][(\E j \in 1..Len(sweeps') :
               /\ sweeps'[j].pc = "getBalance"
               /\ ~(j <= Len(sweeps) /\ sweeps[j] = sweeps'[j]))
           => \A j \in 1..Len(sweeps) : sweeps[j].pc = "returned"]_vars

C37_Witness ==
    /\ swPc = "sweeping"
    /\ swI = PARALLEL_WALLETS
    /\ Len(allResults) = PARALLEL_WALLETS
    /\ \E j \in 1..Len(sweeps) : sweeps[j].pc # "returned"

\* C32: in a run that reached SUCCESS the confirmation wait was called exactly
\* once for each submitted signature, creation and transfer, of every asset, and
\* each of those waits had returned when the status became SUCCESS.
C32_EachSignatureAwaitedOnce ==
    status = "SUCCESS" =>
        /\ Len(signatures) = Len(jobs)
        /\ txSigs = signatures
        /\ \A k \in 1..Len(jobs) :
               /\ signatures[k] = k
               /\ jobs[k].waits = 1
               /\ jobs[k].confirmation # "PENDING"

C32_Witness ==
    /\ status = "SUCCESS"
    /\ handler = "multi"
    /\ \E a, b, c \in 1..Len(jobs) :
           /\ jobs[a].kind = "ata" /\ jobs[b].kind = "transfer"
           /\ jobs[c].asset # jobs[a].asset

\* C33: two send runs never overlap: a run starts only when the status is IDLE,
\* SUCCESS or ERROR and no handler is running, and while a handler runs the
\* status is VALIDATING or SENDING, which keeps the send button disabled.
C33_RunsNeverOverlap ==
    /\ [](pc # "idle" => status \in {"VALIDATING", "SENDING"})
    /\ [][(status' = "VALIDATING" /\ status # "VALIDATING")
              => (pc = "idle" /\ status \in {"IDLE", "SUCCESS", "ERROR"})]_vars
    /\ [][pc # "idle" => Len(jobs') >= Len(jobs)]_vars

C33_Witness ==
    /\ status = "VALIDATING"
    /\ prevStatus \in {"SUCCESS", "ERROR"}
    /\ pc = "validate"

\* C34: after any interleaving of text edits, mode switches and edits of the
\* uniform amount, the recipient list is the parse of the current text under the
\* current mode with the current uniform amount: the same addresses in the same
\* order and, in SAME mode, every amount the uniform amount ("0" standing for an
\* empty one).
C34_ListIsParseOfCurrentInput ==
    \E t \in {Split(rawText)} :
        LET addresses == IF mode = "SAME" THEN t
                         ELSE [k \in 1..CeilDiv(Len(t), 2) |-> t[2 * k - 1]]
            shown == IF Len(addresses) > MAX_BATCH_SIZE THEN MAX_BATCH_SIZE
                     ELSE Len(addresses)
        IN  /\ Len(parsedRecipients) = shown
            /\ \A k \in 1..shown : parsedRecipients[k].address = addresses[k]
            /\ mode = "SAME" =>
                   \A k \in 1..shown :
                       \/ parsedRecipients[k].amount = sameAmount
                       \/ sameAmount = "" /\ parsedRecipients[k].amount = "0"

\* the numbers of the batches that succeeded, in batch order
RECURSIVE SucceededFrom(_)
SucceededFrom(b) ==
    IF b > Len(cBatches) THEN <<>>
    ELSE (IF cBatches[b].ok THEN <<b>> ELSE <<>>) \o SucceededFrom(b + 1)

RECURSIVE SizeSum(_)
SizeSum(numbers) ==
    IF numbers = <<>> THEN 0 ELSE cBatches[Head(numbers)].size + SizeSum(Tail(numbers))

\* C38: in the account closer a failed batch does not stop the batches after
\* it: every account is in exactly one attempted batch, in order, five at a
\* time. The accounts closed are the sum of the sizes of the batches that
\* succeeded, the signatures are one per succeeded batch in batch order, and
\* the wallet's status is 'success' exactly when some batch succeeded.
C38_FailedBatchDoesNotStopWallet ==
    LET succeeded == SucceededFrom(1)
        attempted == Len(cBatches)
    IN  /\ cPc \in {"batch", "returned"} =>
            /\ totalClosed = SizeSum(succeeded)
            /\ closeSignatures = [k \in 1..Len(succeeded) |-> SignatureOf(succeeded[k])]
            /\ \A b \in 1..attempted :
                   /\ cBatches[b].size =
                          (IF b * BATCH_SIZE <= Len(allAccounts) THEN BATCH_SIZE
                           ELSE Len(allAccounts) - (b - 1) * BATCH_SIZE)
                   /\ cBatches[b].tx =
                          CloseTransaction(SubSeq(allAccounts, (b - 1) * BATCH_SIZE + 1,
                                                  (b - 1) * BATCH_SIZE + cBatches[b].size))
        /\ cPc = "batch" => attempted * BATCH_SIZE = cI /\ cI < Len(allAccounts)
        /\ cPc = "returned" =>
            /\ attempted * BATCH_SIZE >= Len(allAccounts)
            /\ (attempted - 1) * BATCH_SIZE < Len(allAccounts) \/ attempted = 0
            /\ cResult.accountsClosed = SizeSum(succeeded)
            /\ cResult.signatures = [k \in 1..Len(succeeded) |-> SignatureOf(succeeded[k])]
            /\ cResult.status = "success" <=> succeeded # <<>>

\* a wallet whose first batch failed and whose last, shorter batch succeeded
C38_Witness ==
    /\ cPc = "returned"
    /\ Len(cBatches) = 3
    /\ ~cBatches[1].ok
    /\ ~cBatches[2].ok
    /\ cBatches[3].ok
    /\ cBatches[3].size = 1
    /\ cResult.status = "success"
    /\ cResult.accountsClosed = 1
    /\ cResult.signatures = <<SignatureOf(3)>>

\* recipient j of chunk c gets a creation instruction
CreatedFor(c, j) ==
    /\ tokenMint # SOL_MINT
    /\ autoCreateATA
    /\ (c - 1) * UtilChunkSize(tokenMint) + j \in uMissing

\* where the transfer of recipient j of chunk c stands in its transaction
TransferPlace(c, j) == j + Cardinality({h \in 1..j : CreatedFor(c, h)})

\* the instructions of a transaction built for the first n recipients of chunk c
BuiltFor(tx, c, n) ==
    LET chunk == UtilChunks[c]
        ins == tx.instructions
        creations == {p \in 1..Len(ins) : ins[p].kind = "createAta"}
    IN  /\ Len(ins) = (IF n = 0 THEN 0 ELSE TransferPlace(c, n))
        /\ \A j \in 1..n :
               LET p == TransferPlace(c, j)
               IN  /\ ins[p].kind = (IF tokenMint = SOL_MINT THEN "transfer"
                                                              ELSE "transferChecked")
                   /\ ins[p].to = (IF tokenMint = SOL_MINT THEN chunk[j].address
                                   ELSE Ata(tokenMint, chunk[j].address))
                   /\ CreatedFor(c, j) =>
                          /\ ins[p - 1].kind = "createAta"
                          /\ ins[p - 1].ata = Ata(tokenMint, chunk[j].address)
                          /\ ins[p - 1].owner = chunk[j].address
        /\ \A p \in creations :
               \E j \in 1..n : CreatedFor(c, j) /\ p = TransferPlace(c, j) - 1
        /\ (tokenMint = SOL_MINT \/ ~autoCreateATA) => creations = {} /\ Len(ins) = n

\* C39: the utility builder adds a creation instruction only for a token
\* recipient whose receiving account was found missing, only when
\* autoCreateATA is true, and places it in the same transaction immediately
\* before that recipient's transfer; with autoCreateATA false, or for a native
\* send, no transaction holds a creation instruction and each transaction has
\* exactly one instruction per recipient of its chunk.
C39_CreationOnlyBeforeItsTransfer ==
    /\ \A c \in 1..Len(transactions) : BuiltFor(transactions[c], c, Len(UtilChunks[c]))
    /\ uPc = "accountInfo" => BuiltFor(transaction, uC, uR - 1)
    /\ uPc = "returned" => Len(transactions) = Len(UtilChunks)

\* a token send to 13 recipients, every second account missing, returned as two
\* transactions of 15 and 5 instructions
C39_Witness ==
    /\ uPc = "returned"
    /\ tokenMint # SOL_MINT
    /\ autoCreateATA
    /\ Len(uRecipients) = 13
    /\ Len(transactions) = 2
    /\ Len(transactions[1].instructions) = 15
    /\ Len(transactions[2].instructions) = 5
    /\ transactions[1].instructions[1].kind = "createAta"
    /\ transactions[1].instructions[2].kind = "transferChecked"
    /\ transactions[1].instructions[3].kind = "transferChecked"

====
